---- MODULE Spec2Model ----
(***************************************************************************)
(* Model of the drift arcade game: the frame loop (animate), the entity    *)
(* registry (physicsObjects, coins, obstacleBoxes), coin spawning and      *)
(* pickup, level-up, game-over and restart, as written in game.js          *)
(* (src/unnamed/part_001) and scene.js.                                     *)
(*                                                                         *)
(* The physics engine is an opaque service: the model keeps the set of     *)
(* rigid bodies with their colliders, and a world step delivers an         *)
(* arbitrary short sequence of collision pairs over collider handles.      *)
(*                                                                         *)
(* JavaScript calls bind arguments by position.  game.js passes 9          *)
(* arguments to createScene (10 parameters) and 6 to createObstacles       *)
(* (7 parameters).  restartGame and levelUp are modelled as written, with  *)
(* the exception these calls raise.  initGame as written raises too and    *)
(* schedules nothing: that is one initial state, with no successor.  The   *)
(* other initial state is the started game: initGame with createScene      *)
(* receiving the parameters scene.js declares.                              *)
(*                                                                         *)
(* Spec follows the game with no key pressed and the car body at rest, its *)
(* position an output of the world step.  ApiSpec adds direct calls of the *)
(* exported collectCoin, SpawnSpec of the exported spawnCoin.  CarSpec     *)
(* follows the controls and the car body through key events, world steps   *)
(* and calls of updateCarPhysics (physics.js) at every level, the game     *)
(* left as started or as over.                                             *)
(*                                                                         *)
(* BootSpec puts the page load of main.js in front of the game.           *)
(* RemoveSpec adds calls of the exported removePhysicsObjects.  SyncSpec,  *)
(* PlaceSpec and TrackSpec follow one function each on inputs drawn from   *)
(* small sets: updatePhysicsObjects on registries with transforms, the     *)
(* sampling loop of spawnCoin on values of Math.random, and addTrack of    *)
(* the tire tracks on collections of up to maxTracks segments.             *)
(* DriveSpec follows the handbrake key and the force-application step     *)
(* with the tire-track update that ends it.                                *)
(***************************************************************************)
EXTENDS Integers, Sequences, FiniteSets, TLC

\* ---- CONFIG (config.js) and literals of game.js ----
coinValue == 10
pointsToAdvance == 100
boxIncreasePerLevel == 10
maxLevel == 10
coinBaseCount == 10
initialCoins == 5

\* CONFIG.car and CONFIG.physics, and the literals of physics.js.  A name ending in
\* 100 or 1000 holds the value in hundredths or thousandths: handbrakeDamping .5,
\* minDampening 0.5, maxDampening 1.5, steeringFactor 0.2, rollingResistance 0.015,
\* base 1.0, step 0.25, cap 2.0, the factor 0.2 of the handbrake force.
\* stopSpeed10 is the 0.2 of lines 125 and 145 in tenths.
carMaxSpeed == 25
engineForceMagnitude == 6
reverseForceMagnitude == -4
steeringFactor100 == 20
handbrakeDamping100 == 50
minDampening100 == 50
maxDampening100 == 150
rollingResistance1000 == 15
speedBase100 == 100
speedStep100 == 25
speedCap100 == 200
handbrakeScale100 == 20
stopSpeed10 == 2
\* physics.js line 81: -Math.PI/2, in degrees.
groundTilt == -90
\* game.js lines 220-221: the side of the square coins are placed in; line 223: the
\* distance from the centre below which a sampled point is drawn again.
coinSpread == 80
coinMinDistance == 10
\* scene.js line 253.
maxTracks == 1000

\* ---- bounds of the model ----
MaxCoins == 11
MaxEvents == 2
MaxPending == 2
MaxPoints == 30
MaxIds == 63
MaxPushes == 1
MaxEntities == 2
RandomGrid == 16
MaxSamples == 2
MaxCalls == 2
MaxSteps == 3

\* ---- JavaScript values that reach the isLoading / RAPIER / level parameters ----
JsUndefined == [kind |-> "undefined"]
JsObject == [kind |-> "object"]
JsNumber(n) == [kind |-> "number", val |-> n]

\* What createScene receives for its parameters isLoading and RAPIER: as lines 37 and
\* 171 pass them (RAPIER ninth, nothing tenth), and as scene.js declares them.
AsWritten == <<JsObject, JsUndefined>>
AsDeclared == <<JsObject, JsObject>>

VARIABLES physicsObjects, coins, obstacleBoxes, points, level, isOver, isFalling,
          world, nextId, carBody, carCollider,
          coinSpawnTimer, timers, nextTimer, restartKeyListener, keyListeners,
          restartButton, animating, pending, log, car,
          entities, boot, coinSpot, tireTracksSystem

\* The variables the handlers of game.js leave alone.  entities: the registry
\* updatePhysicsObjects is given, with the transforms of bodies and visuals.
\* boot: how far the page has come (main.js): "loading" before DOMContentLoaded,
\* "initializing" while RAPIER.init() is pending, "failed" when it rejected, "retrying"
\* with the reload timer pending, "started" once initGame was invoked.
\* coinSpot: the values Math.random is about to return to spawnCoin, and the point
\* spawnCoin chose from them.  tireTracksSystem: the object createTireTracksSystem
\* returns, with the lines it has in the scene.
sideVars == <<entities, boot, coinSpot, tireTracksSystem>>

vars == <<physicsObjects, coins, obstacleBoxes, points, level, isOver, isFalling,
          world, nextId, carBody, carCollider,
          coinSpawnTimer, timers, nextTimer, restartKeyListener, keyListeners,
          restartButton, animating, pending, log, car, sideVars>>

\* ---- physics.js (second part of config.js) and controls.js: the car ----
\* Units: velocities in tenths of a unit per second; the heading forwardDir as a unit
\* vector times 5; forces in 1/5000 of a force unit.  The velocities and headings of
\* the model have whole-number lengths, so that Math.sqrt is exact on them.

Abs(n) == IF n < 0 THEN -n ELSE n

MinOf(a, b) == IF a < b THEN a ELSE b

\* Math.sqrt(x*x + z*z) of lines 109 and 114.
Norm(v) ==
  LET a == Abs(v[1])
      b == Abs(v[2])
  IN CHOOSE n \in (IF a < b THEN b ELSE a)..(a + b) : n * n = a * a + b * b

Dot(u, v) == u[1] * v[1] + u[2] * v[2]

\* Velocities world.step can leave the car with: at rest, creeping below 0.2, slow,
\* 5.0 across, just below and at 25, just below and above 31.25, at and above 50.
Vels == {<<0, 0>>, <<1, 0>>, <<0, -3>>, <<-30, 40>>, <<0, -249>>, <<0, -250>>,
         <<0, 312>>, <<313, 0>>, <<300, -400>>, <<0, -501>>}

\* Headings: the initial one, (0, 0, -1), and one turned.
Dirs == {<<0, -5>>, <<3, -4>>}

\* A force on the body; nan: a component is NaN.
NoForce == [x |-> 0, z |-> 0, nan |-> FALSE]

\* carBody.addForce: the user force of the body accumulates.
addForce(f, d) ==
  IF f.nan \/ d.nan THEN [x |-> 0, z |-> 0, nan |-> TRUE]
  ELSE [x |-> f.x + d.x, z |-> f.z + d.z, nan |-> FALSE]

\* controls (controls.js line 1) and the car body as createScene leaves it.  pushes
\* counts the addForce calls since the last resetForces.
CarAtRest ==
  [controls |-> [forward |-> FALSE, reverse |-> FALSE, left |-> FALSE, right |-> FALSE,
                 handbrake |-> FALSE],
   vel |-> <<0, 0>>, dir |-> <<0, -5>>, force |-> NoForce, pushes |-> 0]

\* What a call of updateCarPhysics did: the level and max speed it used, the forces it
\* passed to addForce in order, whether it called resetForces, the torque impulse and
\* the lateral impulse.
NoPhysics ==
  [ran |-> FALSE, level |-> 0, maxSpeed |-> 0, added |-> <<>>, reset |-> FALSE,
   torque |-> 0, impulse |-> <<0, 0>>]

\* What a call of updatePhysicsObjects did: the entities (by index) whose transform it
\* copied, and those whose error it caught and logged.
NoSync == [ran |-> FALSE, copied |-> {}, caught |-> {}]

\* What a call of removePhysicsObjects did: the removals it attempted in order (ok: the
\* world held the handle), and the errors it caught.
NoRemoval == [ran |-> FALSE, attempted |-> <<>>, caught |-> 0]

\* No value of Math.random is lined up, no point chosen.
NoSpot == [stream |-> <<>>, done |-> FALSE, pos |-> <<0, 0>>, tries |-> 0]

\* createTireTracksSystem(scene), scene.js lines 248-387: no track, no wheel position
\* recorded.  tracks holds [line, age] from the oldest; scene is the set of lines in
\* the scene; nextLine names the next line created; calls counts the calls of addTrack,
\* evicted and faded are the lines the last call took out of tracks.
createTireTracksSystem ==
  [tracks |-> <<>>, lastLeftPos |-> FALSE, lastRightPos |-> FALSE,
   scene |-> {}, nextLine |-> 1, calls |-> 0, evicted |-> {}, faded |-> {}]

\* getCarMaxSpeed with a multiplier that grows past the cap.
getCarMaxSpeed_noCap(lvl) ==
  carMaxSpeed * (speedBase100 + (lvl - 1) * speedStep100)

\* getCarMaxSpeed(level): lines 89-97, in hundredths.
getCarMaxSpeed(lvl) ==
  carMaxSpeed * MinOf(speedBase100 + (lvl - 1) * speedStep100, speedCap100)

\* getDampingFactor(speed): lines 171-175, times 25000.
getDampingFactor(speed) ==
  minDampening100 * 10 * carMaxSpeed
    + (maxDampening100 - minDampening100) * MinOf(speed, 10 * carMaxSpeed)

\* The handbrake force of lines 118-123: -handbrakeDamping * 0.2 along the velocity;
\* 0 / 0 when the car is at rest.
handbrakeForce(linVel, speed) ==
  IF speed = 0 THEN [x |-> 0, z |-> 0, nan |-> TRUE]
  ELSE [x |-> (-((handbrakeDamping100 * handbrakeScale100) \div 2) * linVel[1]) \div speed,
        z |-> (-((handbrakeDamping100 * handbrakeScale100) \div 2) * linVel[2]) \div speed,
        nan |-> FALSE]

\* driveBranch testing forward and reverse before handbrake.
driveBranch_handbrakeLast(ctl, absVel, maxSpeed) ==
  IF ctl.forward /\ absVel * 10 < maxSpeed THEN "forward"
  ELSE IF ctl.reverse /\ absVel * 10 < maxSpeed THEN "reverse"
  ELSE IF ctl.handbrake THEN "handbrake"
  ELSE "none"

\* Which branch of lines 117-136 is taken.
driveBranch(ctl, absVel, maxSpeed) ==
  IF ctl.handbrake THEN "handbrake"
  ELSE IF ctl.forward /\ absVel * 10 < maxSpeed THEN "forward"
  ELSE IF ctl.reverse /\ absVel * 10 < maxSpeed THEN "reverse"
  ELSE "none"

\* updateCarPhysics(carBody, carMesh, level, controls, tireTracksSystem) past its early
\* return: lines 106-156.  c: controls and car body; the result is the car after the
\* call and what the call did.
updateCarPhysics(c, lvl) ==
  LET linVel == c.vel
      absVel == Norm(linVel)
      speed == Norm(linVel)
      forwardDir == c.dir
      maxSpeed == getCarMaxSpeed(lvl)
      branch == driveBranch(c.controls, absVel, maxSpeed)
      \* lines 117-128
      braked == IF branch = "handbrake"
                THEN addForce(c.force, handbrakeForce(linVel, speed)) ELSE c.force
      velAfter == IF branch = "handbrake" /\ absVel < stopSpeed10 THEN <<0, 0>> ELSE linVel
      \* lines 116, 131-136: force, times 5
      magnitude == IF branch = "forward" THEN engineForceMagnitude
                   ELSE IF branch = "reverse" THEN reverseForceMagnitude ELSE 0
      force == <<forwardDir[1] * magnitude, forwardDir[2] * magnitude>>
      \* lines 137-142
      driven == force # <<0, 0>>
      scaled == [x |-> force[1] * (1000 - rollingResistance1000),
                 z |-> force[2] * (1000 - rollingResistance1000), nan |-> FALSE]
      forceAfter == IF driven THEN addForce(braked, scaled) ELSE NoForce
      \* lines 145-149
      steer == (IF c.controls.left THEN 1 ELSE 0) - (IF c.controls.right THEN 1 ELSE 0)
      torque == IF (c.controls.left \/ c.controls.right) /\ speed > stopSpeed10
                THEN steer * steeringFactor100 * speed ELSE 0
      \* lines 150-156: lateral times 25, damp times 25000
      lateral == <<25 * linVel[1] - forwardDir[1] * Dot(forwardDir, linVel),
                   25 * linVel[2] - forwardDir[2] * Dot(forwardDir, linVel)>>
      damp == IF c.controls.handbrake THEN handbrakeDamping100 * 10 * carMaxSpeed
              ELSE getDampingFactor(speed)
  IN [car |-> [c EXCEPT !.force = forceAfter, !.vel = velAfter,
                        !.pushes = IF driven THEN @ + 1 ELSE 0],
      did |-> [ran |-> TRUE, level |-> lvl, maxSpeed |-> maxSpeed,
               added |-> (IF branch = "handbrake" THEN <<"handbrake">> ELSE <<>>)
                           \o (IF driven THEN <<branch>> ELSE <<>>),
               reset |-> ~driven,
               torque |-> torque,
               impulse |-> <<-damp * lateral[1], -damp * lateral[2]>>]]

\* ---- the module state of game.js ----

\* What restartGame has in hand when it calls createScene (line 163).
NoSnapshot ==
  [reached |-> FALSE, points |-> 0, level |-> 0, isOver |-> FALSE,
   registry |-> 0, coins |-> 0, obstacles |-> 0, timers |-> {}, stopped |-> {}]

\* The module state of game.js as one record, so that a function of the source is
\* an operator from state to state.  restartButton: the click listener of line 58 is
\* registered; animating: animate is scheduled (lines 62, 73).  thrown: an exception
\* is propagating.  car: the controls of controls.js and the car body; physics: what
\* the call of updateCarPhysics did.
\* The other fields record what the running handler did: nCollect, nLevelUp,
\* nGameOver the calls that took effect; nTrigger the calls of gameOver;
\* phases: the parts of animate it ran, in the order it ran them;
\* nSpawn: the coins it created;
\* unresolved: a drained handle resolved to no entity; collectedNow: the coins it collected; repeated: a drained pair named a coin
\* it had already collected; recollected: collectCoin was called on a collected coin;
\* sceneStart: the state in which it called createScene.
G ==
  [physicsObjects |-> physicsObjects, coins |-> coins, obstacleBoxes |-> obstacleBoxes,
   points |-> points, level |-> level, isOver |-> isOver, isFalling |-> isFalling,
   world |-> world, nextId |-> nextId, carBody |-> carBody, carCollider |-> carCollider,
   coinSpawnTimer |-> coinSpawnTimer, timers |-> timers, nextTimer |-> nextTimer,
   restartKeyListener |-> restartKeyListener, keyListeners |-> keyListeners,
   restartButton |-> restartButton, animating |-> animating,
   pending |-> pending, car |-> car, physics |-> NoPhysics, removal |-> NoRemoval,
   thrown |-> FALSE, nCollect |-> 0, nLevelUp |-> 0, nGameOver |-> 0, nTrigger |-> 0,
   phases |-> <<>>, nSpawn |-> 0,
   unresolved |-> FALSE, collectedNow |-> {}, repeated |-> FALSE, recollected |-> FALSE,
   sceneStart |-> NoSnapshot]

\* State of the module before initGame: the declarations of game.js lines 13-14.
Blank ==
  [physicsObjects |-> <<>>, coins |-> <<>>, obstacleBoxes |-> <<>>,
   points |-> 0, level |-> 1, isOver |-> FALSE, isFalling |-> FALSE,
   world |-> {}, nextId |-> 1, carBody |-> 0, carCollider |-> 0,
   coinSpawnTimer |-> 0, timers |-> {}, nextTimer |-> 1,
   restartKeyListener |-> 0, keyListeners |-> {},
   restartButton |-> FALSE, animating |-> FALSE,
   pending |-> <<>>, car |-> CarAtRest, physics |-> NoPhysics, removal |-> NoRemoval,
   thrown |-> FALSE, nCollect |-> 0, nLevelUp |-> 0, nGameOver |-> 0, nTrigger |-> 0,
   phases |-> <<>>, nSpawn |-> 0,
   unresolved |-> FALSE, collectedNow |-> {}, repeated |-> FALSE, recollected |-> FALSE,
   sceneStart |-> NoSnapshot]

Throw(g) == [g EXCEPT !.thrown = TRUE]

\* Smallest positive id not in S: the identity of a new listener.
FreshId(S) == CHOOSE i \in 1..(Cardinality(S) + 1) : i \notin S

Min(S) == CHOOSE x \in S : \A y \in S : x <= y

\* ---- scene.js ----

\* createObstacles(RAPIER, world, scene, physicsObjects, obstacleBoxes, isLoading, level=1)
\* Line 208 assigns a property of isLoading: a TypeError in module (strict) code when
\* isLoading is a number or undefined.
createObstacles(g, isLoadingArg, levelArg) ==
  IF isLoadingArg.kind # "object" THEN Throw(g)
  ELSE
    LET lvl == IF levelArg.kind = "undefined" THEN 1 ELSE levelArg.val
        count == lvl * boxIncreasePerLevel
        new == [i \in 1..count |->
                  [obj |-> g.nextId + 3 * (i - 1),
                   body |-> g.nextId + 3 * (i - 1) + 1,
                   collider |-> g.nextId + 3 * (i - 1) + 2,
                   type |-> "obstacle", collected |-> FALSE]]
    IN [g EXCEPT !.physicsObjects = @ \o new,
                 !.obstacleBoxes = @ \o new,
                 !.world = @ \cup {[body |-> new[i].body, colliders |-> {new[i].collider}] : i \in 1..count},
                 !.nextId = @ + 3 * count]

\* createScene(world, scene, physicsObjects, carMesh, carBody, carCollider, level,
\*             obstacleBoxes, isLoading, RAPIER)
\* Line 29 reads RAPIER.ColliderDesc before anything is registered: a TypeError when
\* RAPIER is undefined.  Otherwise ground, car and the obstacles are registered.
createScene(g, isLoadingArg, rapierArg) ==
  IF isLoadingArg.kind # "object" \/ rapierArg.kind # "object" THEN Throw(g)
  ELSE
    LET ground == [obj |-> g.nextId, body |-> g.nextId + 1, collider |-> g.nextId + 2,
                   type |-> "ground", collected |-> FALSE]
        carEntity ==
          [obj |-> g.nextId + 3, body |-> g.nextId + 4, collider |-> g.nextId + 5,
           type |-> "car", collected |-> FALSE]
        g1 == [g EXCEPT !.physicsObjects = @ \o <<ground, carEntity>>,
                        !.world = @ \cup {[body |-> ground.body, colliders |-> {ground.collider}],
                                          [body |-> carEntity.body, colliders |-> {carEntity.collider}]},
                        !.nextId = @ + 6]
        g2 == createObstacles(g1, isLoadingArg, JsNumber(g.level))
    IN IF g2.thrown THEN g2
       ELSE [g2 EXCEPT !.carBody = carEntity.body, !.carCollider = carEntity.collider]

\* ---- game.js ----

\* resetGame that forgets coins.length = 0.
resetGame_keepsCoins(g) ==
  [g EXCEPT !.points = 0, !.level = 1, !.isOver = FALSE,
            !.physicsObjects = <<>>, !.obstacleBoxes = <<>>]

\* resetGame(): lines 179-199.
resetGame(g) ==
  [g EXCEPT !.points = 0, !.level = 1, !.isOver = FALSE,
            !.physicsObjects = <<>>, !.coins = <<>>, !.obstacleBoxes = <<>>]

\* spawnCoin that lets one more coin in than line 203 does.
spawnCoin_lateLimit(g) ==
  IF g.isOver \/ Len(g.coins) > coinBaseCount * g.level + 1 THEN g
  ELSE
    LET body == g.nextId
        solid == g.nextId + 1
        sensor == g.nextId + 2
        coinRec == [obj |-> g.nextId + 3, body |-> body, sensor |-> sensor, collected |-> FALSE]
        entity == [obj |-> g.nextId + 4, body |-> body, collider |-> sensor,
                   type |-> "coin", collected |-> FALSE]
    IN [g EXCEPT !.world = @ \cup {[body |-> body, colliders |-> {solid, sensor}]},
                 !.coins = Append(@, coinRec),
                 !.physicsObjects = Append(@, entity),
                 !.nextId = @ + 5,
                 !.nSpawn = @ + 1]

\* spawnCoin without the isOver test of line 203.
spawnCoin_noOverTest(g) ==
  IF Len(g.coins) > coinBaseCount * g.level THEN g
  ELSE
    LET body == g.nextId
        solid == g.nextId + 1
        sensor == g.nextId + 2
        coinRec == [obj |-> g.nextId + 3, body |-> body, sensor |-> sensor, collected |-> FALSE]
        entity == [obj |-> g.nextId + 4, body |-> body, collider |-> sensor,
                   type |-> "coin", collected |-> FALSE]
    IN [g EXCEPT !.world = @ \cup {[body |-> body, colliders |-> {solid, sensor}]},
                 !.coins = Append(@, coinRec),
                 !.physicsObjects = Append(@, entity),
                 !.nextId = @ + 5,
                 !.nSpawn = @ + 1]

\* spawnCoin(): lines 201-276.  One body with a solid collider and a sensor
\* collider; the coins entry and the registry entry are two distinct objects.
spawnCoin(g) ==
  IF g.isOver \/ Len(g.coins) > coinBaseCount * g.level THEN g
  ELSE
    LET body == g.nextId
        solid == g.nextId + 1
        sensor == g.nextId + 2
        coinRec == [obj |-> g.nextId + 3, body |-> body, sensor |-> sensor, collected |-> FALSE]
        entity == [obj |-> g.nextId + 4, body |-> body, collider |-> sensor,
                   type |-> "coin", collected |-> FALSE]
    IN [g EXCEPT !.world = @ \cup {[body |-> body, colliders |-> {solid, sensor}]},
                 !.coins = Append(@, coinRec),
                 !.physicsObjects = Append(@, entity),
                 !.nextId = @ + 5,
                 !.nSpawn = @ + 1]

\* Array.from({length: n}).forEach(() => spawnCoin()): lines 126-128.
RECURSIVE spawnCoins(_, _)
spawnCoins(g, n) == IF n = 0 THEN g ELSE spawnCoins(spawnCoin(g), n - 1)

\* startCoinSpawning(): lines 124-129.
startCoinSpawning(g) ==
  LET t == g.nextTimer
      g1 == [g EXCEPT !.coinSpawnTimer = t, !.timers = @ \cup {t}, !.nextTimer = @ + 1]
  IN spawnCoins(g1, initialCoins)

\* levelUp without the increment of line 314.
levelUp_keepsLevel(g) ==
  LET g1 == [g EXCEPT !.nLevelUp = @ + 1]
  IN createObstacles(g1, JsNumber(g1.level), JsUndefined)

\* levelUp whose call of createObstacles binds isLoading and level as scene.js
\* declares them.
levelUp_createsObstacles(g) ==
  LET g1 == [g EXCEPT !.level = @ + 1, !.nLevelUp = @ + 1]
  IN createObstacles(g1, JsObject, JsNumber(g1.level))

\* levelUp(): lines 313-331.  The call of createObstacles passes level where
\* isLoading is declared and nothing where level is declared.
levelUp(g) ==
  LET g1 == [g EXCEPT !.level = @ + 1, !.nLevelUp = @ + 1]
  IN createObstacles(g1, JsNumber(g1.level), JsUndefined)

\* The body of the object with identity obj (coin.body).
BodyOf(g, obj) ==
  LET inReg == {i \in 1..Len(g.physicsObjects) : g.physicsObjects[i].obj = obj}
      inCoins == {i \in 1..Len(g.coins) : g.coins[i].obj = obj}
  IN IF inReg # {} THEN g.physicsObjects[Min(inReg)].body
     ELSE IF inCoins # {} THEN g.coins[Min(inCoins)].body
     ELSE 0

\* collectCoin doing the removal of lines 297-301 itself, not in a setTimeout callback.
collectCoin_removesNow(g, obj) ==
  LET body == BodyOf(g, obj)
      was == \E i \in 1..Len(g.physicsObjects) :
                g.physicsObjects[i].obj = obj /\ g.physicsObjects[i].collected
      g1 == [g EXCEPT
               !.collectedNow = @ \cup {obj},
               !.recollected = @ \/ was,
               !.physicsObjects = [i \in 1..Len(@) |->
                   IF @[i].obj = obj THEN [@[i] EXCEPT !.collected = TRUE] ELSE @[i]],
               !.coins = [i \in 1..Len(@) |->
                   IF @[i].obj = obj THEN [@[i] EXCEPT !.collected = TRUE] ELSE @[i]],
               !.points = @ + coinValue,
               !.nCollect = @ + 1]
      g2 == IF g1.points >= g1.level * pointsToAdvance /\ g1.level < maxLevel
            THEN levelUp(g1) ELSE g1
  IN IF g2.thrown THEN g2
     ELSE [g2 EXCEPT !.coins = SelectSeq(@, LAMBDA c : c.obj # obj),
                     !.physicsObjects = SelectSeq(@, LAMBDA o : o.obj # obj),
                     !.world = {b \in @ : b.body # body}]

\* collectCoin without the level < maxLevel test of line 294.
collectCoin_noMaxLevel(g, obj) ==
  LET body == BodyOf(g, obj)
      was == \E i \in 1..Len(g.physicsObjects) :
                g.physicsObjects[i].obj = obj /\ g.physicsObjects[i].collected
      g1 == [g EXCEPT
               !.collectedNow = @ \cup {obj},
               !.recollected = @ \/ was,
               !.physicsObjects = [i \in 1..Len(@) |->
                   IF @[i].obj = obj THEN [@[i] EXCEPT !.collected = TRUE] ELSE @[i]],
               !.coins = [i \in 1..Len(@) |->
                   IF @[i].obj = obj THEN [@[i] EXCEPT !.collected = TRUE] ELSE @[i]],
               !.points = @ + coinValue,
               !.nCollect = @ + 1]
      g2 == IF g1.points >= g1.level * pointsToAdvance
            THEN levelUp(g1) ELSE g1
  IN IF g2.thrown THEN g2
     ELSE [g2 EXCEPT !.pending = Append(@, [obj |-> obj, body |-> body])]

\* collectCoin with > for >= in the level-up test.
collectCoin_strictThreshold(g, obj) ==
  LET body == BodyOf(g, obj)
      was == \E i \in 1..Len(g.physicsObjects) :
                g.physicsObjects[i].obj = obj /\ g.physicsObjects[i].collected
      g1 == [g EXCEPT
               !.collectedNow = @ \cup {obj},
               !.recollected = @ \/ was,
               !.physicsObjects = [i \in 1..Len(@) |->
                   IF @[i].obj = obj THEN [@[i] EXCEPT !.collected = TRUE] ELSE @[i]],
               !.coins = [i \in 1..Len(@) |->
                   IF @[i].obj = obj THEN [@[i] EXCEPT !.collected = TRUE] ELSE @[i]],
               !.points = @ + coinValue,
               !.nCollect = @ + 1]
      g2 == IF g1.points > g1.level * pointsToAdvance /\ g1.level < maxLevel
            THEN levelUp(g1) ELSE g1
  IN IF g2.thrown THEN g2
     ELSE [g2 EXCEPT !.pending = Append(@, [obj |-> obj, body |-> body])]

\* collectCoin(coin): lines 286-311.  coin is an object reference; the removal of
\* lines 296-307 is queued only when the function reaches line 296.
collectCoin(g, obj) ==
  LET body == BodyOf(g, obj)
      was == \E i \in 1..Len(g.physicsObjects) :
                g.physicsObjects[i].obj = obj /\ g.physicsObjects[i].collected
      g1 == [g EXCEPT
               !.collectedNow = @ \cup {obj},
               !.recollected = @ \/ was,
               !.physicsObjects = [i \in 1..Len(@) |->
                   IF @[i].obj = obj THEN [@[i] EXCEPT !.collected = TRUE] ELSE @[i]],
               !.coins = [i \in 1..Len(@) |->
                   IF @[i].obj = obj THEN [@[i] EXCEPT !.collected = TRUE] ELSE @[i]],
               !.points = @ + coinValue,
               !.nCollect = @ + 1]
      g2 == IF g1.points >= g1.level * pointsToAdvance /\ g1.level < maxLevel
            THEN levelUp(g1) ELSE g1
  IN IF g2.thrown THEN g2
     ELSE [g2 EXCEPT !.pending = Append(@, [obj |-> obj, body |-> body])]

\* The setTimeout callback of collectCoin: lines 296-307, for the oldest queued one.
removeCollected(g) ==
  LET task == Head(g.pending)
      keepC == SelectSeq(g.coins, LAMBDA c : c.obj # task.obj)
      keepP == SelectSeq(g.physicsObjects, LAMBDA o : o.obj # task.obj)
  IN [g EXCEPT !.pending = Tail(@),
               !.coins = keepC,
               !.physicsObjects = keepP,
               !.world = {b \in @ : b.body # task.body}]

\* gameOver without the early return of line 140.
gameOver_noGuard(g, falling) ==
  LET l == FreshId(g.keyListeners)
  IN [g EXCEPT !.isOver = TRUE, !.isFalling = falling,
               !.timers = @ \ {g.coinSpawnTimer},
               !.restartKeyListener = l,
               !.keyListeners = @ \cup {l},
               !.nGameOver = @ + 1, !.nTrigger = @ + 1]

\* gameOver whose early return comes after the assignment of isFalling.
gameOver_lateGuard(g, falling) ==
  IF g.isOver THEN [g EXCEPT !.isFalling = falling, !.nTrigger = @ + 1]
  ELSE LET l == FreshId(g.keyListeners)
       IN [g EXCEPT !.isOver = TRUE, !.isFalling = falling,
                    !.timers = @ \ {g.coinSpawnTimer},
                    !.restartKeyListener = l,
                    !.keyListeners = @ \cup {l},
                    !.nGameOver = @ + 1, !.nTrigger = @ + 1]

\* gameOver({falling}): lines 139-154.
gameOver(g, falling) ==
  IF g.isOver THEN [g EXCEPT !.nTrigger = @ + 1]
  ELSE LET l == FreshId(g.keyListeners)
       IN [g EXCEPT !.isOver = TRUE, !.isFalling = falling,
                    !.timers = @ \ {g.coinSpawnTimer},
                    !.restartKeyListener = l,
                    !.keyListeners = @ \cup {l},
                    !.nGameOver = @ + 1, !.nTrigger = @ + 1]

\* restartGame without the clearInterval of line 161.
restartGame_noClearInterval(g) ==
  LET g1 == IF g.restartKeyListener # 0
            THEN [g EXCEPT !.keyListeners = @ \ {g.restartKeyListener},
                           !.restartKeyListener = 0]
            ELSE g
      g3 == resetGame(g1)
      g4 == [g3 EXCEPT !.sceneStart =
                [reached |-> TRUE, points |-> g3.points, level |-> g3.level,
                 isOver |-> g3.isOver, registry |-> Len(g3.physicsObjects),
                 coins |-> Len(g3.coins), obstacles |-> Len(g3.obstacleBoxes),
                 timers |-> g3.timers, stopped |-> g.timers \ g3.timers]]
      g5 == createScene(g4, AsWritten[1], AsWritten[2])
  IN IF g5.thrown THEN g5 ELSE startCoinSpawning(g5)

\* restartGame(): lines 155-177.  The call of createScene passes RAPIER where
\* isLoading is declared and nothing where RAPIER is declared.
restartGame(g) ==
  LET g1 == IF g.restartKeyListener # 0
            THEN [g EXCEPT !.keyListeners = @ \ {g.restartKeyListener},
                           !.restartKeyListener = 0]
            ELSE g
      g2 == [g1 EXCEPT !.timers = @ \ {g1.coinSpawnTimer}]
      g3 == resetGame(g2)
      g4 == [g3 EXCEPT !.sceneStart =
                [reached |-> TRUE, points |-> g3.points, level |-> g3.level,
                 isOver |-> g3.isOver, registry |-> Len(g3.physicsObjects),
                 coins |-> Len(g3.coins), obstacles |-> Len(g3.obstacleBoxes),
                 timers |-> g3.timers, stopped |-> g.timers \ g3.timers]]
      g5 == createScene(g4, AsWritten[1], AsWritten[2])
  IN IF g5.thrown THEN g5 ELSE startCoinSpawning(g5)

\* physicsObjects.find(o => o.collider && o.collider.handle === h): the index of the
\* first match, 0 for undefined.
findByCollider(g, h) ==
  LET idx == {i \in 1..Len(g.physicsObjects) : g.physicsObjects[i].collider = h}
  IN IF idx = {} THEN 0 ELSE Min(idx)

\* The callback without the !otherObj.collected test of line 100.
onCollision_noCollectedTest(g, h1, h2) ==
  LET i1 == findByCollider(g, h1)
      i2 == findByCollider(g, h2)
  IN IF i1 = 0 \/ i2 = 0 THEN Throw([g EXCEPT !.unresolved = TRUE])
     ELSE LET obj1 == g.physicsObjects[i1]
              obj2 == g.physicsObjects[i2]
          IN IF obj1.type = "car" \/ obj2.type = "car"
             THEN LET otherObj == IF obj1.type = "car" THEN obj2 ELSE obj1
                  IN IF otherObj.type = "coin"
                     THEN collectCoin([g EXCEPT !.repeated = @ \/ otherObj.obj \in g.collectedNow],
                                      otherObj.obj)
                     ELSE IF otherObj.type = "obstacle"
                          THEN gameOver(g, FALSE)
                          ELSE g
             ELSE g

\* The callback taking obj2 for the other object whichever handle is the car.
onCollision_secondIsOther(g, h1, h2) ==
  LET i1 == findByCollider(g, h1)
      i2 == findByCollider(g, h2)
  IN IF i1 = 0 \/ i2 = 0 THEN Throw([g EXCEPT !.unresolved = TRUE])
     ELSE LET obj1 == g.physicsObjects[i1]
              obj2 == g.physicsObjects[i2]
          IN IF obj1.type = "car" \/ obj2.type = "car"
             THEN LET otherObj == obj2
                  IN IF otherObj.type = "coin" /\ ~otherObj.collected
                     THEN collectCoin(g, otherObj.obj)
                     ELSE IF otherObj.type = "obstacle"
                          THEN gameOver(g, FALSE)
                          ELSE [g EXCEPT !.repeated = @ \/ otherObj.obj \in g.collectedNow]
             ELSE g

\* The drainCollisionEvents callback: lines 87-106.  Line 93 reads obj1.type and
\* obj2.type before the test of line 95.
onCollision(g, h1, h2) ==
  LET i1 == findByCollider(g, h1)
      i2 == findByCollider(g, h2)
  IN IF i1 = 0 \/ i2 = 0 THEN Throw([g EXCEPT !.unresolved = TRUE])
     ELSE LET obj1 == g.physicsObjects[i1]
              obj2 == g.physicsObjects[i2]
          IN IF obj1.type = "car" \/ obj2.type = "car"
             THEN LET otherObj == IF obj1.type = "car" THEN obj2 ELSE obj1
                  IN IF otherObj.type = "coin" /\ ~otherObj.collected
                     THEN collectCoin(g, otherObj.obj)
                     ELSE IF otherObj.type = "obstacle"
                          THEN gameOver(g, FALSE)
                          ELSE [g EXCEPT !.repeated = @ \/ otherObj.obj \in g.collectedNow]
             ELSE g

\* eventQueue.drainCollisionEvents(callback): the callback on each pair in turn; an
\* exception leaves the drain.
RECURSIVE drainCollisionEvents(_, _)
drainCollisionEvents(g, events) ==
  IF events = <<>> \/ g.thrown THEN g
  ELSE drainCollisionEvents(onCollision(g, Head(events)[1], Head(events)[2]), Tail(events))

\* One more part of animate has run.
Phase(g, p) == [g EXCEPT !.phases = Append(@, p)]

\* updateCarPhysics returns at once (physics.js, config.js line 100) without a car
\* body, or when the game is over and the car is not falling.
updateCarPhysicsReturns(g) == g.carBody = 0 \/ (g.isOver /\ ~g.isFalling)

\* The call of updateCarPhysics of line 76.
applyControlForces(g) ==
  IF updateCarPhysicsReturns(g) THEN g
  ELSE LET r == updateCarPhysics(g.car, g.level)
       IN Phase([g EXCEPT !.car = r.car, !.physics = r.did], "forces")

\* animate stepping only while the game is not over.
animate_noFallingStep(g, carOut, events) ==
  LET g0 == IF ~g.isOver
            THEN LET g1 == applyControlForces(Phase(g, "step"))
                     g2 == Phase(g1, "boundary")
                     g3 == IF carOut THEN gameOver(g2, TRUE) ELSE g2
                 IN drainCollisionEvents(Phase(g3, "drain"), events)
            ELSE g
  IN IF g0.thrown THEN g0 ELSE Phase(Phase(g0, "sync"), "render")

\* animate with the drain of lines 87-106 moved before the boundary check.
animate_drainFirst(g, carOut, events) ==
  LET g0 == IF ~g.isOver \/ (g.isOver /\ g.isFalling)
            THEN LET g1 == applyControlForces(Phase(g, "step"))
                     g2 == drainCollisionEvents(Phase(g1, "drain"), events)
                     g3 == IF g2.thrown THEN g2 ELSE Phase(g2, "boundary")
                 IN IF carOut /\ ~g3.thrown THEN gameOver(g3, TRUE) ELSE g3
            ELSE g
  IN IF g0.thrown THEN g0 ELSE Phase(Phase(g0, "sync"), "render")

\* animate with the visual sync of line 109 moved before the step.
animate_syncFirst(g, carOut, events) ==
  LET g0 == IF ~g.isOver \/ (g.isOver /\ g.isFalling)
            THEN LET g1 == applyControlForces(Phase(Phase(g, "sync"), "step"))
                     g2 == Phase(g1, "boundary")
                     g3 == IF carOut THEN gameOver(g2, TRUE) ELSE g2
                 IN drainCollisionEvents(Phase(g3, "drain"), events)
            ELSE Phase(g, "sync")
  IN IF g0.thrown THEN g0 ELSE Phase(g0, "render")

\* animate(): lines 72-122.  carOut: the boundary test of line 82 on the stepped car
\* position; events: what the step queued.  An exception of the drain callback leaves
\* animate before line 109.
animate(g, carOut, events) ==
  LET g0 == IF ~g.isOver \/ (g.isOver /\ g.isFalling)
            THEN LET g1 == applyControlForces(Phase(g, "step"))
                     g2 == Phase(g1, "boundary")
                     g3 == IF carOut THEN gameOver(g2, TRUE) ELSE g2
                 IN drainCollisionEvents(Phase(g3, "drain"), events)
            ELSE g
  IN IF g0.thrown THEN g0 ELSE Phase(Phase(g0, "sync"), "render")

\* ---- the handlers the browser runs ----

\* What a handler did: op its name, stepped whether the frame stepped the world,
\* carOut the boundary test, synced whether a frame reached updatePhysicsObjects and
\* render (lines 108-121).
LogOf(g, op, stepped, carOut) ==
  [op |-> op, thrown |-> g.thrown, stepped |-> stepped, carOut |-> carOut,
   synced |-> (op = "animate" /\ ~g.thrown),
   nCollect |-> g.nCollect, nLevelUp |-> g.nLevelUp, nGameOver |-> g.nGameOver,
   nTrigger |-> g.nTrigger, phases |-> g.phases, nSpawn |-> g.nSpawn,
   unresolved |-> g.unresolved, repeated |-> g.repeated, recollected |-> g.recollected,
   sceneStart |-> g.sceneStart, physics |-> g.physics, sync |-> NoSync,
   removal |-> g.removal]

\* The module state of game.js after a handler.
BecomesGame(g, op, stepped, carOut) ==
  /\ physicsObjects' = g.physicsObjects
  /\ coins' = g.coins
  /\ obstacleBoxes' = g.obstacleBoxes
  /\ points' = g.points
  /\ level' = g.level
  /\ isOver' = g.isOver
  /\ isFalling' = g.isFalling
  /\ world' = g.world
  /\ nextId' = g.nextId
  /\ carBody' = g.carBody
  /\ carCollider' = g.carCollider
  /\ coinSpawnTimer' = g.coinSpawnTimer
  /\ timers' = g.timers
  /\ nextTimer' = g.nextTimer
  /\ restartKeyListener' = g.restartKeyListener
  /\ keyListeners' = g.keyListeners
  /\ restartButton' = g.restartButton
  /\ animating' = g.animating
  /\ pending' = g.pending
  /\ log' = LogOf(g, op, stepped, carOut)
  /\ car' = g.car

\* The state after a handler of the started game.
Becomes(g, op, stepped, carOut) ==
  /\ BecomesGame(g, op, stepped, carOut)
  /\ UNCHANGED sideVars

\* The n smallest elements of a set of numbers.
RECURSIVE FirstN(_, _)
FirstN(S, n) == IF n = 0 \/ S = {} THEN {} ELSE {Min(S)} \cup FirstN(S \ {Min(S)}, n - 1)

\* Collider handles in the physics world.
WorldColliders(g) == UNION {b.colliders : b \in g.world}

RegisteredColliders(g, type, collected) ==
  {g.physicsObjects[i].collider : i \in {j \in 1..Len(g.physicsObjects) :
      g.physicsObjects[j].type = type /\ g.physicsObjects[j].collected = collected}}

\* Of the colliders in the world, the oldest of each sort: of a registered ground,
\* obstacle, uncollected coin and collected coin, and of no registered entity.
Oldest(g, type, collected) ==
  FirstN(RegisteredColliders(g, type, collected) \cap WorldColliders(g), 1)

Stray(g) ==
  FirstN(WorldColliders(g) \ ({g.physicsObjects[i].collider : i \in 1..Len(g.physicsObjects)}
                               \cup {g.carCollider}), 1)

\* The handles a step reports: the car's collider and those colliders.
Handles(g) ==
  ({g.carCollider} \cap WorldColliders(g))
  \cup Oldest(g, "ground", FALSE) \cup Oldest(g, "obstacle", FALSE)
  \cup Oldest(g, "coin", FALSE) \cup Oldest(g, "coin", TRUE) \cup Stray(g)

\* The pairs the callback can be called with.
DispatchPairs(g) == {p \in Handles(g) \X Handles(g) : p[1] # p[2]}

\* The collision pairs a step queues: the car's collider with each other handle.
EventPairs(g) == {p \in DispatchPairs(g) : p[1] = g.carCollider}

\* What one world.step(eventQueue) can queue.
EventSeqs(g) ==
  UNION {[1..n -> EventPairs(g)] : n \in 0..MaxEvents}

Stepping(g) == ~g.isOver \/ (g.isOver /\ g.isFalling)

\* requestAnimationFrame callback.
Frame ==
  /\ animating
  /\ Len(pending) < MaxPending
  /\ IF Stepping(G)
     THEN \E carOut \in BOOLEAN, events \in EventSeqs(G) :
            Becomes(animate(G, carOut, events), "animate", TRUE, carOut)
     ELSE Becomes(animate(G, FALSE, <<>>), "animate", FALSE, FALSE)

\* A tick of a running setInterval(spawnCoin, ...) timer.  MaxCoins bounds the ticks
\* that create a coin.
TimerTick ==
  /\ timers # {}
  /\ Len(coins) < MaxCoins \/ Len(coins) > coinBaseCount * level
  /\ Becomes(spawnCoin(G), "spawnCoin", FALSE, FALSE)

\* The setTimeout(..., 0) callback queued by collectCoin.
DeferredRemoval ==
  /\ pending # <<>>
  /\ Becomes(removeCollected(G), "removeCollected", FALSE, FALSE)

\* Click on #restart-button (listener of line 58).
RestartClick ==
  /\ restartButton
  /\ Becomes(restartGame(G), "restartClick", FALSE, FALSE)

\* Enter or space with the keydown listener of gameOver registered.
RestartKey ==
  /\ keyListeners # {}
  /\ Becomes(restartGame(G), "restartKey", FALSE, FALSE)

\* initGame(rapier): lines 17-64.  Whatever follows line 37 runs only when createScene
\* returns.
initGame(g, sceneArgs) ==
  LET g1 == createScene(resetGame(g), sceneArgs[1], sceneArgs[2])
  IN IF g1.thrown THEN g1
     ELSE [startCoinSpawning([g1 EXCEPT !.restartButton = TRUE]) EXCEPT !.animating = TRUE]

\* The started game.
Started == initGame(Blank, AsDeclared)

\* The module state is g, left there by op.
StartsGame(g, op) ==
  /\ physicsObjects = g.physicsObjects
  /\ coins = g.coins
  /\ obstacleBoxes = g.obstacleBoxes
  /\ points = g.points
  /\ level = g.level
  /\ isOver = g.isOver
  /\ isFalling = g.isFalling
  /\ world = g.world
  /\ nextId = g.nextId
  /\ carBody = g.carBody
  /\ carCollider = g.carCollider
  /\ coinSpawnTimer = g.coinSpawnTimer
  /\ timers = g.timers
  /\ nextTimer = g.nextTimer
  /\ restartKeyListener = g.restartKeyListener
  /\ keyListeners = g.keyListeners
  /\ restartButton = g.restartButton
  /\ animating = g.animating
  /\ pending = g.pending
  /\ log = LogOf(g, op, FALSE, FALSE)
  /\ car = g.car

\* The module state is g, as initGame leaves it.
Starts(g) ==
  /\ StartsGame(g, "initGame")
  /\ entities = <<>>
  /\ boot = "started"
  /\ coinSpot = NoSpot
  /\ tireTracksSystem = createTireTracksSystem

Init == \E sceneArgs \in {AsWritten, AsDeclared} : Starts(initGame(Blank, sceneArgs))

Next == Frame \/ TimerTick \/ DeferredRemoval \/ RestartClick \/ RestartKey

Spec == Init /\ [][Next]_vars

\* ---- the exported functions called directly ----

\* collectCoin is exported: a call on a registered coin, collected or not.
CallCollectCoin ==
  /\ Len(pending) < MaxPending
  /\ points < MaxPoints
  /\ \E i \in 1..Len(physicsObjects) :
       /\ physicsObjects[i].type = "coin"
       /\ physicsObjects[i].collider \in Oldest(G, "coin", FALSE) \cup Oldest(G, "coin", TRUE)
       /\ Becomes(collectCoin(G, physicsObjects[i].obj), "collectCoin", FALSE, FALSE)

\* spawnCoin is exported: a call at any time, the game over or not.  MaxCoins and
\* MaxIds bound the calls that create a coin.
CallSpawnCoin ==
  /\ \/ isOver \/ Len(coins) > coinBaseCount * level
     \/ Len(coins) < MaxCoins /\ nextId < MaxIds
  /\ Becomes(spawnCoin(G), "callSpawnCoin", FALSE, FALSE)

ApiNext == Next \/ CallCollectCoin

ApiSpec == Init /\ [][ApiNext]_vars

SpawnNext == Next \/ CallSpawnCoin

SpawnSpec == Init /\ [][SpawnNext]_vars

\* ---- the car: key events, the world step and updateCarPhysics on their own ----

\* The variables of game.js other than log and car.
gameVars == <<physicsObjects, coins, obstacleBoxes, points, level, isOver, isFalling,
              world, nextId, carBody, carCollider,
              coinSpawnTimer, timers, nextTimer, restartKeyListener, keyListeners,
              restartButton, animating, pending>>

\* The keys setupInput listens to (e.key.toLowerCase()).
Keys == {"w", "s", "a", "d", " "}

\* The keydown listener (value TRUE) and the keyup listener (value FALSE) of setupInput.
setKey(ctl, k, value) ==
  [ctl EXCEPT !.forward = IF k = "w" THEN value ELSE @,
              !.reverse = IF k = "s" THEN value ELSE @,
              !.left = IF k = "a" THEN value ELSE @,
              !.right = IF k = "d" THEN value ELSE @,
              !.handbrake = IF k = " " THEN value ELSE @]

KeyDown ==
  /\ animating
  /\ \E k \in Keys : car' = [car EXCEPT !.controls = setKey(@, k, TRUE)]
  /\ log' = [log EXCEPT !.op = "keydown", !.physics = NoPhysics]
  /\ UNCHANGED <<gameVars, sideVars>>

KeyUp ==
  /\ animating
  /\ \E k \in Keys : car' = [car EXCEPT !.controls = setKey(@, k, FALSE)]
  /\ log' = [log EXCEPT !.op = "keyup", !.physics = NoPhysics]
  /\ UNCHANGED <<gameVars, sideVars>>

\* world.step of line 75 as the car sees it: the engine moves and turns the body; the
\* user force stays on the body.
WorldStep ==
  /\ animating /\ Stepping(G)
  /\ \E v \in Vels, d \in Dirs : car' = [car EXCEPT !.vel = v, !.dir = d]
  /\ log' = [log EXCEPT !.op = "worldStep", !.physics = NoPhysics]
  /\ UNCHANGED <<gameVars, sideVars>>

\* updateCarPhysics is exported: a call with any level of 1..maxLevel.  MaxPushes
\* bounds the forces accumulated on the body.
CallUpdateCarPhysics ==
  /\ animating
  /\ \E lvl \in 1..maxLevel :
       LET r == updateCarPhysics(car, lvl)
       IN IF updateCarPhysicsReturns(G)
          THEN /\ car' = car
               /\ log' = [log EXCEPT !.op = "updateCarPhysics", !.physics = NoPhysics]
          ELSE /\ r.car.pushes <= MaxPushes
               /\ car' = r.car
               /\ log' = [log EXCEPT !.op = "updateCarPhysics", !.physics = r.did]
  /\ UNCHANGED <<gameVars, sideVars>>

\* The started game, running or over.
CarInit ==
  \E g \in {Started, gameOver(Started, TRUE), gameOver(Started, FALSE)} : Starts(g)

CarNext == KeyDown \/ KeyUp \/ WorldStep \/ CallUpdateCarPhysics

CarSpec == CarInit /\ [][CarNext]_vars

\* ---- physics.js: updatePhysicsObjects on its own ----
\* A transform is a position and a rotation; the rotation is written as the Euler
\* angles (order XYZ, degrees) that three.js keeps in step with the quaternion of a
\* visual, so that mesh.rotation.x = ... replaces the first angle.

Transforms ==
  {[pos |-> <<0, 0, 0>>, rot |-> <<0, 0, 0>>], [pos |-> <<3, 1, -4>>, rot |-> <<10, 45, 20>>]}

\* A body handle: present (the entity has a body field), valid (the world still holds
\* the body; translation() of a removed body raises).
NoBody == [present |-> FALSE, valid |-> FALSE, pos |-> <<0, 0, 0>>, rot |-> <<0, 0, 0>>]

NoMesh == [present |-> FALSE, pos |-> <<0, 0, 0>>, rot |-> <<0, 0, 0>>]

bodyAt(t) == [present |-> TRUE, valid |-> TRUE, pos |-> t.pos, rot |-> t.rot]

\* The visual of an entity as scene.js creates it: placed as the body, the ground
\* plane turned to lie flat (scene.js line 21).
meshAt(type, t) ==
  [present |-> TRUE, pos |-> t.pos,
   rot |-> IF type = "ground" THEN [t.rot EXCEPT ![1] = groundTilt] ELSE t.rot]

\* The entities a registry may hold: with body and visual, or lacking one of them.
EntityShapes ==
  {[type |-> ty, body |-> bodyAt(t), mesh |-> meshAt(ty, t)] :
      ty \in {"ground", "car", "coin"}, t \in Transforms}
  \cup {[type |-> "coin", body |-> NoBody, mesh |-> meshAt("coin", t)] : t \in Transforms}
  \cup {[type |-> "obstacle", body |-> bodyAt(t), mesh |-> NoMesh] : t \in Transforms}

\* The callback of physicsObjects.forEach, lines 68-86.
syncEntity(o) ==
  IF ~o.body.present \/ ~o.mesh.present
  THEN [o |-> o, copied |-> FALSE, caught |-> FALSE]
  ELSE IF ~o.body.valid
  THEN [o |-> o, copied |-> FALSE, caught |-> TRUE]
  ELSE [o |-> [o EXCEPT !.mesh.pos = o.body.pos,
                        !.mesh.rot = IF o.type = "ground"
                                     THEN [o.body.rot EXCEPT ![1] = groundTilt]
                                     ELSE o.body.rot],
        copied |-> TRUE, caught |-> FALSE]

\* updatePhysicsObjects where the first error ends the loop.
updatePhysicsObjects_abortsOnError(reg) ==
  LET failed == {i \in 1..Len(reg) : syncEntity(reg[i]).caught}
      stop == IF failed = {} THEN Len(reg) + 1 ELSE Min(failed)
  IN [registry |-> [i \in 1..Len(reg) |-> IF i < stop THEN syncEntity(reg[i]).o ELSE reg[i]],
      did |-> [ran |-> TRUE,
               copied |-> {i \in 1..Len(reg) : i < stop /\ syncEntity(reg[i]).copied},
               caught |-> {i \in failed : i = stop}]]

\* updatePhysicsObjects(world, physicsObjects), lines 67-87.
updatePhysicsObjects(reg) ==
  [registry |-> [i \in 1..Len(reg) |-> syncEntity(reg[i]).o],
   did |-> [ran |-> TRUE,
            copied |-> {i \in 1..Len(reg) : syncEntity(reg[i]).copied},
            caught |-> {i \in 1..Len(reg) : syncEntity(reg[i]).caught}]]

\* The engine, or a caller of setTranslation and setRotation, moves a body.
BodyMoves ==
  /\ \E i \in 1..Len(entities), t \in Transforms :
       /\ entities[i].body.present /\ entities[i].body.valid
       /\ entities' = [entities EXCEPT ![i].body.pos = t.pos, ![i].body.rot = t.rot]
  /\ log' = [log EXCEPT !.op = "bodyMoves", !.sync = NoSync]
  /\ UNCHANGED <<gameVars, car, boot, coinSpot, tireTracksSystem>>

\* world.removeRigidBody on the body of an entity that stays registered.
BodyRemoved ==
  /\ \E i \in 1..Len(entities) :
       /\ entities[i].body.present /\ entities[i].body.valid
       /\ entities' = [entities EXCEPT ![i].body.valid = FALSE]
  /\ log' = [log EXCEPT !.op = "bodyRemoved", !.sync = NoSync]
  /\ UNCHANGED <<gameVars, car, boot, coinSpot, tireTracksSystem>>

\* A call of updatePhysicsObjects (game.js line 109, or any importer).
CallUpdatePhysicsObjects ==
  /\ entities' = updatePhysicsObjects(entities).registry
  /\ log' = [log EXCEPT !.op = "updatePhysicsObjects",
                        !.sync = updatePhysicsObjects(entities).did]
  /\ UNCHANGED <<gameVars, car, boot, coinSpot, tireTracksSystem>>

\* A registry of MaxEntities entities, as created.
SyncInit ==
  /\ StartsGame(Started, "initGame")
  /\ entities \in [1..MaxEntities -> EntityShapes]
  /\ boot = "started"
  /\ coinSpot = NoSpot
  /\ tireTracksSystem = createTireTracksSystem

SyncNext == BodyMoves \/ BodyRemoved \/ CallUpdatePhysicsObjects

SyncSpec == SyncInit /\ [][SyncNext]_vars

\* ---- physics.js: removePhysicsObjects called on the game ----
\* Whether the engine raises on a handle it no longer holds depends on the build;
\* raises is that choice.

\* world.removeCollider(collider, true).
removeCollider(g, h, raises) ==
  IF g.thrown THEN g
  ELSE IF h \in WorldColliders(g)
  THEN [g EXCEPT !.world = {[b EXCEPT !.colliders = @ \ {h}] : b \in @},
                 !.removal.attempted = Append(@, [what |-> "collider", handle |-> h, ok |-> TRUE])]
  ELSE [g EXCEPT !.thrown = raises,
                 !.removal.attempted = Append(@, [what |-> "collider", handle |-> h, ok |-> FALSE])]

\* world.removeRigidBody(body): the body goes with the colliders attached to it.
removeRigidBody(g, b, raises) ==
  IF g.thrown THEN g
  ELSE IF \E r \in g.world : r.body = b
  THEN [g EXCEPT !.world = {r \in @ : r.body # b},
                 !.removal.attempted = Append(@, [what |-> "body", handle |-> b, ok |-> TRUE])]
  ELSE [g EXCEPT !.thrown = raises,
                 !.removal.attempted = Append(@, [what |-> "body", handle |-> b, ok |-> FALSE])]

\* A catch clause that lets the error go on.
caught_rethrows(g) == g

\* The catch clauses of lines 183-185, 192-194 and 203-205: console.warn.
caught(g) == IF g.thrown THEN [g EXCEPT !.thrown = FALSE, !.removal.caught = @ + 1] ELSE g

\* physicsObjects.forEach of lines 179-196.
RECURSIVE removeEntities(_, _, _)
removeEntities(g, objs, raises) ==
  IF objs = <<>> \/ g.thrown THEN g
  ELSE LET g1 == caught(removeCollider(g, Head(objs).collider, raises))
           g2 == caught(removeRigidBody(g1, Head(objs).body, raises))
       IN removeEntities(g2, Tail(objs), raises)

\* coins.forEach of lines 199-207.
RECURSIVE removeSensors(_, _, _)
removeSensors(g, cs, raises) ==
  IF cs = <<>> \/ g.thrown THEN g
  ELSE LET g1 == IF ~Head(cs).collected
                 THEN caught(removeCollider(g, Head(cs).sensor, raises))
                 ELSE g
       IN removeSensors(g1, Tail(cs), raises)

\* removePhysicsObjects(physicsObjects, world, coins), lines 177-210; the world of
\* game.js exists from initGame on.
removePhysicsObjects(g, raises) ==
  removeSensors(removeEntities([g EXCEPT !.removal.ran = TRUE], g.physicsObjects, raises),
                g.coins, raises)

\* removePhysicsObjects is exported: a call with the registry, world and coins of the
\* game.
CallRemovePhysicsObjects ==
  /\ animating
  /\ \E raises \in BOOLEAN :
       Becomes(removePhysicsObjects(G, raises), "removePhysicsObjects", FALSE, FALSE)

RemoveNext == Next \/ CallRemovePhysicsObjects

RemoveSpec == Init /\ [][RemoveNext]_vars

\* ---- game.js: where spawnCoin places a coin ----
\* Math.random() returns k / RandomGrid for a whole k of 0..RandomGrid-1; lengths are
\* kept times RandomGrid, so that (Math.random()-0.5)*80 is the whole number
\* 80*k - 40*RandomGrid.

\* The values of Math.random followed: both ends of its range, and those around the
\* middle, which give coordinates near the centre.
Randoms ==
  {0, RandomGrid - 1} \cup {k \in 0..(RandomGrid - 1) : Abs(2 * k - RandomGrid) <= 4}

\* (Math.random()-0.5)*80 of lines 220 and 221, times RandomGrid.
coinCoordinate(k) == coinSpread * k - (coinSpread \div 2) * RandomGrid

\* A test of line 223 that never asks for another sample.
tooClose_never(x, z) == FALSE

\* dist < 10 of line 223, dist the square root of line 222.
tooClose(x, z) == x * x + z * z < (coinMinDistance * RandomGrid) * (coinMinDistance * RandomGrid)

\* The do-while of lines 219-223 on the values Math.random returns, a pair for each
\* round; done is FALSE when the loop asks for more values than the stream holds.
RECURSIVE samplePosition(_, _)
samplePosition(stream, tries) ==
  IF stream = <<>> THEN [done |-> FALSE, pos |-> <<0, 0>>, tries |-> tries]
  ELSE LET posX == coinCoordinate(Head(stream)[1])
           posZ == coinCoordinate(Head(stream)[2])
       IN IF tooClose(posX, posZ)
          THEN samplePosition(Tail(stream), tries + 1)
          ELSE [done |-> TRUE, pos |-> <<posX, posZ>>, tries |-> tries + 1]

\* A coin-timer tick with the values of coinSpot.stream lined up: spawnCoin, with the
\* point of line 224.
PlaceCoin ==
  /\ timers # {}
  /\ ~coinSpot.done
  /\ LET r == samplePosition(coinSpot.stream, 0)
         g == spawnCoin(G)
     IN /\ r.done
        /\ g.nSpawn = 1
        /\ BecomesGame(g, "spawnCoin", FALSE, FALSE)
        /\ coinSpot' = [stream |-> coinSpot.stream, done |-> TRUE, pos |-> r.pos,
                        tries |-> r.tries]
  /\ UNCHANGED <<entities, boot, tireTracksSystem>>

\* The started game, and up to MaxSamples rounds of values of Math.random.
PlaceInit ==
  /\ StartsGame(Started, "initGame")
  /\ entities = <<>>
  /\ boot = "started"
  /\ \E n \in 1..MaxSamples : \E stream \in [1..n -> Randoms \X Randoms] :
       coinSpot = [stream |-> stream, done |-> FALSE, pos |-> <<0, 0>>, tries |-> 0]
  /\ tireTracksSystem = createTireTracksSystem

PlaceNext == PlaceCoin

PlaceSpec == PlaceInit /\ [][PlaceNext]_vars

\* ---- scene.js: the tire tracks ----
\* A wheel position is kept as whether one is recorded; whether a wheel has moved more
\* than 0.2 from it (lines 285 and 296) is an input of addTrack.

\* createTrackSegment(startPoint, endPoint, isLeftWheel), lines 318-344.
createTrackSegment(t) ==
  [t EXCEPT !.scene = @ \cup {t.nextLine},
            !.tracks = Append(@, [line |-> t.nextLine, age |-> 0]),
            !.nextLine = @ + 1]

\* Lines 283-292 for the left wheel.
leftWheel(t, moved) ==
  IF t.lastLeftPos
  THEN IF moved THEN createTrackSegment(t) ELSE t
  ELSE [t EXCEPT !.lastLeftPos = TRUE]

\* Lines 294-303 for the right wheel.
rightWheel(t, moved) ==
  IF t.lastRightPos
  THEN IF moved THEN createTrackSegment(t) ELSE t
  ELSE [t EXCEPT !.lastRightPos = TRUE]

\* A loop that takes the newest tracks out.
evictOldest_takesNewest(t) ==
  LET over == IF Len(t.tracks) > maxTracks THEN Len(t.tracks) - maxTracks ELSE 0
      gone == {t.tracks[i].line : i \in (Len(t.tracks) - over + 1)..Len(t.tracks)}
  IN [t EXCEPT !.tracks = SubSeq(@, 1, Len(@) - over),
               !.scene = @ \ gone,
               !.evicted = gone]

\* The while loop of lines 306-309: tracks.shift() and scene.remove.
evictOldest(t) ==
  LET over == IF Len(t.tracks) > maxTracks THEN Len(t.tracks) - maxTracks ELSE 0
      gone == {t.tracks[i].line : i \in 1..over}
  IN [t EXCEPT !.tracks = SubSeq(@, over + 1, Len(@)),
               !.scene = @ \ gone,
               !.evicted = gone]

\* opacity < 0.05 of line 356 for a track of the given age, the opacity being
\* Math.max(0, 0.7 - (age / maxTracks) * 0.7): both sides times 20 * maxTracks.
almostTransparent(age) ==
  (IF age < maxTracks THEN 14 * (maxTracks - age) ELSE 0) < maxTracks

\* fadeOldTracks(), lines 346-362.
fadeOldTracks(t) ==
  LET aged == [i \in 1..Len(t.tracks) |-> [t.tracks[i] EXCEPT !.age = @ + 1]]
      gone == {aged[i].line : i \in {j \in 1..Len(aged) : almostTransparent(aged[j].age)}}
  IN [t EXCEPT !.tracks = SelectSeq(aged, LAMBDA k : ~almostTransparent(k.age)),
               !.scene = @ \ gone,
               !.faded = gone]

\* addTrack(position, rotation), lines 264-316.
addTrack(t, movedLeft, movedRight) ==
  fadeOldTracks(evictOldest(rightWheel(leftWheel([t EXCEPT !.calls = @ + 1], movedLeft),
                                       movedRight)))

\* The system after the car has driven: n tracks, two of each age (one when n is
\* odd), the newest of age youngest, the ages a step apart.
drivenSystem(n, youngest, step) ==
  [tracks |-> [i \in 1..n |-> [line |-> i, age |-> youngest + step * ((n - i) \div 2)]],
   lastLeftPos |-> TRUE, lastRightPos |-> TRUE,
   scene |-> 1..n, nextLine |-> n + 1, calls |-> 0, evicted |-> {}, faded |-> {}]

\* A call of addTrack (from update, line 378); MaxCalls bounds the calls.
CallAddTrack ==
  /\ tireTracksSystem.calls < MaxCalls
  /\ \E movedLeft, movedRight \in BOOLEAN :
       tireTracksSystem' = addTrack(tireTracksSystem, movedLeft, movedRight)
  /\ log' = [log EXCEPT !.op = "addTrack"]
  /\ UNCHANGED <<gameVars, car, entities, boot, coinSpot>>

\* The new system, and systems after a drive: few or nearly maxTracks tracks, the
\* oldest young or about to fade.
TrackInit ==
  /\ StartsGame(Started, "initGame")
  /\ entities = <<>>
  /\ boot = "started"
  /\ coinSpot = NoSpot
  /\ \/ tireTracksSystem = createTireTracksSystem
     \/ \E n \in {2, 3, maxTracks - 2, maxTracks - 1, maxTracks}, step \in {0, 1} :
          \E youngest \in {1, 2, (maxTracks - (maxTracks \div 14)) - step * ((n - 1) \div 2) - 2,
                                  (maxTracks - (maxTracks \div 14)) - step * ((n - 1) \div 2) - 1} :
            /\ youngest >= 1
            /\ step = 0 => n <= 2
            /\ tireTracksSystem = drivenSystem(n, youngest, step)

TrackNext == CallAddTrack

TrackSpec == TrackInit /\ [][TrackNext]_vars

\* ---- physics.js and scene.js: updateCarPhysics with the tire tracks ----

\* Lines 102-105 of physics.js kept out: the anchors stay.
clearAnchors_never(t, ctl) == t

\* Lines 102-105 of physics.js: without the handbrake both wheel anchors are dropped.
clearAnchors(t, ctl) ==
  IF ~ctl.handbrake THEN [t EXCEPT !.lastLeftPos = FALSE, !.lastRightPos = FALSE] ELSE t

\* tireTracksSystem.update(carMesh, carVelocity), scene.js lines 365-383, the car mesh
\* being the group createScene returns.  fast: speed > 1 of line 377, on the velocity
\* the engine reports after the impulses of the call.
update(t, fast, movedLeft, movedRight) ==
  IF fast THEN addTrack(t, movedLeft, movedRight) ELSE t

\* The keydown and keyup listeners of setupInput for the space key.
HandbrakeKey ==
  /\ animating
  /\ \E value \in BOOLEAN :
       /\ car.controls.handbrake # value
       /\ car' = [car EXCEPT !.controls = setKey(@, " ", value)]
  /\ log' = [log EXCEPT !.op = "handbrakeKey", !.physics = NoPhysics]
  /\ UNCHANGED <<gameVars, sideVars>>

\* Line 75 and line 76 of animate: the world step, then updateCarPhysics from its
\* first line to its last, the tire tracks included.  MaxSteps bounds the calls of
\* addTrack.
DriveStep ==
  /\ animating /\ Stepping(G) /\ ~updateCarPhysicsReturns(G)
  /\ \E v \in Vels, d \in Dirs, fast, movedLeft, movedRight \in BOOLEAN :
       LET stepped == [car EXCEPT !.vel = v, !.dir = d]
           r == updateCarPhysics(stepped, level)
           t == clearAnchors(tireTracksSystem, stepped.controls)
       IN /\ fast => tireTracksSystem.calls < MaxSteps
          /\ car' = r.car
          /\ tireTracksSystem' = update(t, fast, movedLeft, movedRight)
          /\ log' = [log EXCEPT !.op = "updateCarPhysics", !.physics = r.did]
  /\ UNCHANGED <<gameVars, entities, boot, coinSpot>>

\* The started game with the system createScene returns.
DriveInit == Starts(Started)

DriveNext == HandbrakeKey \/ DriveStep

DriveSpec == DriveInit /\ [][DriveNext]_vars

\* ---- main.js (second part of controls.js): the page load ----

\* The DOMContentLoaded listener, lines 28-36: RAPIER.init() is called when RAPIER is
\* defined, else the reload is scheduled.
DomContentLoaded_startsAtOnce ==
  /\ boot = "loading"
  /\ \E sceneArgs \in {AsWritten, AsDeclared} :
       BecomesGame(initGame(G, sceneArgs), "initGame", FALSE, FALSE)
  /\ boot' = "started"
  /\ UNCHANGED <<entities, coinSpot, tireTracksSystem>>

DomContentLoaded ==
  /\ boot = "loading"
  /\ \E rapierDefined \in BOOLEAN :
       boot' = IF rapierDefined THEN "initializing" ELSE "retrying"
  /\ log' = [log EXCEPT !.op = "DOMContentLoaded"]
  /\ UNCHANGED <<gameVars, car, entities, coinSpot, tireTracksSystem>>

\* The promise of RAPIER.init() is fulfilled: the then-callback of line 31 calls
\* initGame(RAPIER).
InitResolves ==
  /\ boot = "initializing"
  /\ \E sceneArgs \in {AsWritten, AsDeclared} :
       BecomesGame(initGame(G, sceneArgs), "initGame", FALSE, FALSE)
  /\ boot' = "started"
  /\ UNCHANGED <<entities, coinSpot, tireTracksSystem>>

\* The promise is rejected: line 31 registers no rejection handler.
InitRejects ==
  /\ boot = "initializing"
  /\ boot' = "failed"
  /\ log' = [log EXCEPT !.op = "initRejected"]
  /\ UNCHANGED <<gameVars, car, entities, coinSpot, tireTracksSystem>>

\* The timeout of line 34: window.location.reload() loads the page anew.
Reload ==
  /\ boot = "retrying"
  /\ boot' = "loading"
  /\ log' = [log EXCEPT !.op = "reload"]
  /\ UNCHANGED <<gameVars, car, entities, coinSpot, tireTracksSystem>>

\* The page as loaded: the module state of game.js as declared.
BootInit ==
  /\ StartsGame(Blank, "load")
  /\ entities = <<>>
  /\ boot = "loading"
  /\ coinSpot = NoSpot
  /\ tireTracksSystem = createTireTracksSystem

BootNext == DomContentLoaded \/ InitResolves \/ InitRejects \/ Reload \/ Next

BootSpec == BootInit /\ [][BootNext]_vars

\* ---- claims ----

IsRestart(op) == op \in {"restartClick", "restartKey"}

\* Coins of the registry whose collected flag is set.
CollectedObjs(po) == {po[i].obj : i \in {j \in 1..Len(po) : po[j].type = "coin" /\ po[j].collected}}

\* C1 (as claimed): every level-up appends exactly newLevel * boxIncreasePerLevel
\* obstacles to the obstacle collection and to the registry and leaves the
\* obstacles already there in place.
C1_LevelUpSpawnsObstacles ==
  [][level' = level + 1 =>
       /\ Len(obstacleBoxes') = Len(obstacleBoxes) + level' * boxIncreasePerLevel
       /\ SubSeq(obstacleBoxes', 1, Len(obstacleBoxes)) = obstacleBoxes]_vars

C3_NoOrphanedColliders ==
  \A h \in WorldColliders(G) :
    Cardinality({i \in 1..Len(physicsObjects) : physicsObjects[i].collider = h}) = 1

\* C4 (as claimed): a frame whose drain meets a handle that resolves to no registered
\* entity raises no error and still runs visual sync and render.
C4_UnresolvedIsSkipped ==
  (log.op = "animate" /\ log.unresolved) => (~log.thrown /\ log.synced)

\* C5 (as claimed): collectCoin called on a coin whose collected flag is already set
\* changes neither points nor level.
C5_CollectCoinIdempotent ==
  [][(log'.op = "collectCoin" /\ log'.recollected) =>
       (points' = points /\ level' = level)]_vars

\* C6: in one drain, points increase by the coin value once per coin that becomes
\* collected, however many pairs name that coin, and at most one level-up results;
\* a pair naming a coin already collected has no effect.
C6_OncePerCoin ==
  [][log'.op = "animate" =>
       /\ points' = points + coinValue *
            Cardinality(CollectedObjs(physicsObjects') \ CollectedObjs(physicsObjects))
       /\ log'.nLevelUp <= 1
       /\ level' - level = log'.nLevelUp]_vars

C6_Witness ==
  log.op = "animate" /\ log.repeated /\ log.nCollect = 1

\* C7: for a pair whose two handles resolve, car with an uncollected coin collects the
\* coin, car with an obstacle ends the game with falling = false (nothing changes when
\* the game is already over), and any other pair changes neither points, level, isOver
\* nor isFalling; the order of the two handles makes no difference.
C7_DispatchByType ==
  \A p \in DispatchPairs(G) :
    LET i1 == findByCollider(G, p[1])
        i2 == findByCollider(G, p[2])
        r == onCollision(G, p[1], p[2])
    IN (i1 # 0 /\ i2 # 0) =>
         LET e1 == physicsObjects[i1]
             e2 == physicsObjects[i2]
             withCar == e1.type = "car" \/ e2.type = "car"
             other == IF e1.type = "car" THEN e2 ELSE e1
         IN IF withCar /\ other.type = "coin" /\ ~other.collected
            THEN /\ r.nCollect = 1
                 /\ r.points = points + coinValue
                 /\ other.obj \in CollectedObjs(r.physicsObjects)
                 /\ r.isOver = isOver /\ r.isFalling = isFalling
            ELSE IF withCar /\ other.type = "obstacle"
            THEN /\ r.isOver
                 /\ r.isFalling = (isOver /\ isFalling)
                 /\ r.nGameOver = (IF isOver THEN 0 ELSE 1)
                 /\ r.points = points /\ r.level = level /\ r.nCollect = 0
            ELSE /\ r.points = points /\ r.level = level
                 /\ r.isOver = isOver /\ r.isFalling = isFalling
                 /\ r.nCollect = 0 /\ r.nGameOver = 0

C7_Witness ==
  /\ log.op = "animate" /\ ~log.carOut /\ log.nGameOver = 1 /\ log.nCollect = 1
  /\ isOver /\ ~isFalling

\* C8: a frame of a game that is not over with the car outside the boundary ends the
\* game with falling = true in that frame, stops the coin timer and registers one
\* restart key listener; a frame of a game that is over repeats none of these, wherever
\* the car is.
C8_BoundaryOnce ==
  [][log'.op = "animate" =>
       /\ (~isOver /\ log'.carOut) =>
            /\ isOver' /\ isFalling'
            /\ log'.nGameOver = 1
            /\ coinSpawnTimer \notin timers'
            /\ Cardinality(keyListeners') = Cardinality(keyListeners) + 1
       /\ isOver =>
            /\ log'.nGameOver = 0
            /\ isOver' /\ isFalling' = isFalling
            /\ timers' = timers
            /\ keyListeners' = keyListeners
            /\ restartKeyListener' = restartKeyListener]_vars

C8_Witness ==
  /\ log.op = "animate" /\ log.stepped /\ log.carOut /\ log.nGameOver = 0
  /\ isOver /\ isFalling /\ Cardinality(keyListeners) = 1

\* C9: a restart leaves points = 0, level = 1 and isOver = false, and calls createScene
\* with the registry, the coin collection and the obstacle collection empty.
C9_RestartResets ==
  IsRestart(log.op) =>
    /\ points = 0 /\ level = 1 /\ ~isOver
    /\ log.sceneStart.reached
    /\ log.sceneStart.points = 0 /\ log.sceneStart.level = 1 /\ ~log.sceneStart.isOver
    /\ log.sceneStart.registry = 0
    /\ log.sceneStart.coins = 0
    /\ log.sceneStart.obstacles = 0

C9_Witness ==
  /\ log.op = "restartKey" /\ log.sceneStart.reached
  /\ pending # <<>>

\* C10: a restart stops the coin-spawn timer before it calls createScene, and no timer
\* that was running before a restart is running after it; a game-over that takes
\* effect stops the coin-spawn timer.
C10_TimerStopped ==
  [][/\ IsRestart(log'.op) =>
          (timers \cap timers' = {} /\ log'.sceneStart.timers = {})
     /\ log'.nGameOver > 0 => coinSpawnTimer \notin timers']_vars

C10_Witness ==
  IsRestart(log.op) /\ log.sceneStart.stopped # {}

\* C11 (as claimed): isFalling is false in every state where isOver is false, a
\* restart from a falling game-over included.
C11_FallingOnlyWhenOver ==
  ~isOver => ~isFalling

\* C12: while the game is over a call of gameOver, falling or not, changes nothing;
\* every step other than a restart taken with isOver set leaves isOver set and
\* isFalling as it is, and no gameOver takes effect in it.
C12_GameOverOneWay ==
  [][/\ isOver => \A falling \in BOOLEAN : gameOver(G, falling) = [G EXCEPT !.nTrigger = 1]
     /\ (isOver /\ ~IsRestart(log'.op)) =>
          (isOver' /\ isFalling' = isFalling /\ log'.nGameOver = 0)
     /\ (isOver /\ ~isOver') => IsRestart(log'.op)]_vars

\* A frame in which gameOver took effect for the car leaving the ground and was called
\* again for an obstacle.
C12_Witness ==
  /\ log.op = "animate" /\ log.carOut /\ log.nGameOver = 1 /\ log.nTrigger = 2
  /\ isOver /\ isFalling

\* Whether a part of animate ran in the handler that led to this state.
Ran(l, p) == \E i \in 1..Len(l.phases) : l.phases[i] = p

\* C13: a frame steps the world, applies the control forces and drains the collision
\* events if and only if, when it starts, the game is not over or is over and falling;
\* a frame that starts with isOver and not isFalling does none of the three and still
\* runs visual sync and render.
C13_SteppingGate ==
  [][log'.op = "animate" =>
       /\ Ran(log', "step") = (~isOver \/ isFalling)
       /\ Ran(log', "forces") = (~isOver \/ isFalling)
       /\ Ran(log', "drain") = (~isOver \/ isFalling)
       /\ (isOver /\ ~isFalling) => log'.phases = <<"sync", "render">>]_vars

\* A frame that started with the game over after an obstacle hit.
C13_Witness ==
  /\ log.op = "animate" /\ isOver /\ ~isFalling
  /\ log.phases = <<"sync", "render">>

\* The module state with level lvl and the points one coin below, or two coins below,
\* the level-up threshold of that level.
AtLevel(lvl, below) ==
  [G EXCEPT !.level = lvl, !.points = lvl * pointsToAdvance - below * coinValue]

\* C14: in every state 1 <= level <= maxLevel and points is a natural number; a step
\* other than a restart never decreases level; and collectCoin on a registered coin,
\* at any level of 1..maxLevel with the points at or next to the threshold, leaves
\* level in 1..maxLevel, not below what it was, and points a natural number.
C14_LevelAndPointsRange ==
  /\ [](level \in 1..maxLevel /\ points \in Nat)
  /\ [][~IsRestart(log'.op) => level' >= level]_vars
  /\ [](\A i \in 1..Len(physicsObjects) :
          physicsObjects[i].collider \in Oldest(G, "coin", FALSE) =>
            \A lvl \in 1..maxLevel, below \in 1..2 :
              LET r == collectCoin(AtLevel(lvl, below), physicsObjects[i].obj)
              IN /\ r.level \in 1..maxLevel
                 /\ r.level >= lvl
                 /\ r.points \in Nat)

\* A coin collected after the level-up to level 2.
C14_Witness ==
  /\ log.op = "animate" /\ log.nCollect = 1 /\ log.nLevelUp = 0
  /\ level = 2 /\ points > pointsToAdvance

\* The identities of the registered coin entities.
CoinEntities(po) == {po[i].obj : i \in {j \in 1..Len(po) : po[j].type = "coin"}}

\* C15: a call of spawnCoin with the game over, or with more than coinBaseCount * level
\* coins, adds nothing to the coin collection, the registry or the physics world; and
\* no step taken with the game over, other than a restart, adds a coin, a coin entity
\* or a body.
C15_SpawnGuard ==
  [][/\ (/\ log'.op \in {"spawnCoin", "callSpawnCoin"}
         /\ isOver \/ Len(coins) > coinBaseCount * level) =>
          /\ log'.nSpawn = 0
          /\ coins' = coins /\ physicsObjects' = physicsObjects /\ world' = world
     /\ (isOver /\ ~IsRestart(log'.op)) =>
          /\ coins' = coins
          /\ CoinEntities(physicsObjects') \subseteq CoinEntities(physicsObjects)
          /\ world' \subseteq world]_vars

\* spawnCoin called with the game over.
C15_Witness ==
  /\ log.op = "callSpawnCoin" /\ log.nSpawn = 0
  /\ isOver /\ Len(coins) <= coinBaseCount * level

\* The rigid bodies of the physics world.
Bodies(w) == {b.body : b \in w}

\* The registered coin entities with their bodies.
CoinBodies(po) == {<<po[i].obj, po[i].body>> : i \in {j \in 1..Len(po) : po[j].type = "coin"}}

\* C16: a frame, its drain included, removes no body from the physics world and no
\* entity from the registry; a step other than a restart that removes a coin entity
\* from the registry is the deferred callback and removes the coin's body in the same
\* step, and a body leaves the world only in the deferred callback; so in every state
\* the body of every registered coin entity is in the world.
C16_DeferredRemoval ==
  /\ [](\A e \in CoinBodies(physicsObjects) : e[2] \in Bodies(world))
  /\ [][/\ log'.op = "animate" =>
             /\ Bodies(world) \subseteq Bodies(world')
             /\ CoinBodies(physicsObjects) \subseteq CoinBodies(physicsObjects')
        /\ ~IsRestart(log'.op) =>
             \A e \in CoinBodies(physicsObjects) \ CoinBodies(physicsObjects') :
               log'.op = "removeCollected" /\ e[2] \notin Bodies(world')
        /\ (Bodies(world) \ Bodies(world') # {}) => log'.op = "removeCollected"]_vars

\* The deferred callback has removed a collected coin from the registry and its body
\* from the world, in a game that was not restarted.
C16_Witness ==
  /\ log.op = "removeCollected"
  /\ findByCollider(G, carCollider) # 0
  /\ Cardinality(CoinBodies(physicsObjects)) < Len(coins)
  /\ \A e \in CoinBodies(physicsObjects) : e[2] \in Bodies(world)

\* C17: updateCarPhysics called with a level of 1..maxLevel uses the max speed
\* (in hundredths) 25 * (1 + 0.25 * (level - 1)) up to level 5 and 2 * 25 from level 5
\* on; getCarMaxSpeed is non-decreasing over 1..maxLevel and never above 2 * 25.
C17_MaxSpeedFormula ==
  /\ log.physics.ran =>
       log.physics.maxSpeed =
         (IF log.physics.level >= 5 THEN 200 * carMaxSpeed
          ELSE 100 * carMaxSpeed + 25 * carMaxSpeed * (log.physics.level - 1))
  /\ \A l \in 1..maxLevel :
       /\ getCarMaxSpeed(l) <= 200 * carMaxSpeed
       /\ l < maxLevel => getCarMaxSpeed(l) <= getCarMaxSpeed(l + 1)

\* A call at the top level, where the cap binds.
C17_Witness ==
  /\ log.op = "updateCarPhysics" /\ log.physics.ran
  /\ log.physics.level = maxLevel /\ log.physics.maxSpeed = 200 * carMaxSpeed

\* C18: a frame that steps runs world step, control forces, boundary check, drain,
\* visual sync and render in this order, each at most once; the first four always, the
\* last two unless the drain raised.
C18_PhaseOrder ==
  (log.op = "animate" /\ log.stepped) =>
    LET order == <<"step", "forces", "boundary", "drain", "sync", "render">>
    IN /\ Len(log.phases) \in 4..6
       /\ log.phases = SubSeq(order, 1, Len(log.phases))
       /\ ~log.thrown => log.phases = order

\* A frame that went through all six, collecting a coin and ending the game in its
\* drain.
C18_Witness ==
  /\ log.op = "animate" /\ log.stepped /\ ~log.thrown
  /\ Len(log.phases) = 6
  /\ log.nCollect = 1 /\ log.nGameOver = 1 /\ ~log.carOut

\* Whether a call of updateCarPhysics passed the named force to addForce.
Added(did, name) == \E i \in 1..Len(did.added) : did.added[i] = name

\* C19: a call of updateCarPhysics with handbrake set adds neither the forward nor the
\* reverse force and leaves neither on the body; with handbrake clear and forward and
\* reverse both set it never adds the reverse force, and adds the forward force when
\* the speed is below the max speed of the level; it adds a forward or reverse force
\* only when the speed is below that max speed, the forward one along the heading and
\* the reverse one against it.
C19_HandbrakePriority ==
  [][(log'.op = "updateCarPhysics" /\ log'.physics.ran) =>
       LET did == log'.physics
           ctl == car.controls
           below == 10 * Norm(car.vel) < getCarMaxSpeed(did.level)
           delta == <<car'.force.x - car.force.x, car'.force.z - car.force.z>>
       IN /\ ctl.handbrake =>
               /\ ~Added(did, "forward") /\ ~Added(did, "reverse")
               /\ car'.force = NoForce
          /\ (~ctl.handbrake /\ ctl.forward /\ ctl.reverse) =>
               /\ ~Added(did, "reverse")
               /\ Added(did, "forward") = below
          /\ (Added(did, "forward") \/ Added(did, "reverse")) => below
          /\ Added(did, "forward") => Dot(delta, car.dir) > 0
          /\ Added(did, "reverse") => Dot(delta, car.dir) < 0]_vars

\* A call with handbrake, forward and reverse all set, the car moving below the max
\* speed.
C19_Witness ==
  /\ log.op = "updateCarPhysics" /\ log.physics.ran
  /\ car.controls.handbrake /\ car.controls.forward /\ car.controls.reverse
  /\ car.vel = <<-30, 40>>
  /\ log.physics.added = <<"handbrake">>

\* C20 (as claimed): after a call of updateCarPhysics with handbrake set and the car
\* moving, the force accumulated on the car body opposes the velocity the car had.
C20_HandbrakeForceRemains ==
  [][(/\ log'.op = "updateCarPhysics" /\ log'.physics.ran
      /\ car.controls.handbrake /\ Norm(car.vel) # 0) =>
       /\ ~car'.force.nan
       /\ Dot(<<car'.force.x, car'.force.z>>, car.vel) < 0]_vars

\* C21: a call of updatePhysicsObjects gives every entity that has a body and a visual
\* the position and the rotation of its body, the ground's visual turned to -90 degrees
\* about x; it leaves every other visual, and the visual of an entity whose body raises,
\* as it was, whatever happened to the entities before it; it changes no body and no
\* entity's place in the registry.  The ground's visual is at -90 degrees about x in
\* every state.
C21_VisualSync ==
  /\ [](\A i \in 1..Len(entities) :
          (entities[i].type = "ground" /\ entities[i].mesh.present)
            => entities[i].mesh.rot[1] = groundTilt)
  /\ [][log'.op = "updatePhysicsObjects" =>
          /\ Len(entities') = Len(entities)
          /\ \A i \in 1..Len(entities) :
               LET o == entities[i]
                   n == entities'[i]
               IN /\ n.type = o.type /\ n.body = o.body
                  /\ n.mesh.present = o.mesh.present
                  /\ IF o.body.present /\ o.mesh.present /\ o.body.valid
                     THEN /\ n.mesh.pos = o.body.pos
                          /\ n.mesh.rot = IF o.type = "ground"
                                          THEN <<groundTilt, o.body.rot[2], o.body.rot[3]>>
                                          ELSE o.body.rot
                          /\ i \in log'.sync.copied
                     ELSE /\ n.mesh = o.mesh
                          /\ i \notin log'.sync.copied]_vars

\* A sync caught the error of one entity and then moved the visual of a later one.
C21_Witness ==
  /\ log.op = "updatePhysicsObjects"
  /\ \E i \in log.sync.caught, j \in log.sync.copied :
       /\ i < j
       /\ entities[j].mesh.pos = entities[j].body.pos
       /\ entities[j].mesh.pos # <<0, 0, 0>>
\* The removals removePhysicsObjects is to attempt: collider and body of each entity
\* in registry order, then the sensor of each coin not marked collected.
RECURSIVE EntityRemovals(_)
EntityRemovals(objs) ==
  IF objs = <<>> THEN <<>>
  ELSE <<[what |-> "collider", handle |-> Head(objs).collider],
         [what |-> "body", handle |-> Head(objs).body]>> \o EntityRemovals(Tail(objs))

RECURSIVE SensorRemovals(_)
SensorRemovals(cs) ==
  IF cs = <<>> THEN <<>>
  ELSE (IF Head(cs).collected THEN <<>> ELSE <<[what |-> "collider", handle |-> Head(cs).sensor]>>)
       \o SensorRemovals(Tail(cs))

\* C22: a call of removePhysicsObjects attempts every removal of the batch, in order,
\* whether or not earlier ones failed: no error leaves the function, every handle the
\* world held is removed, every failed attempt that raised is caught, and afterwards
\* the world holds no body and no collider of a registered entity.
C22_BatchRemoval ==
  [][log'.op = "removePhysicsObjects" =>
       LET did == log'.removal.attempted
           due == EntityRemovals(physicsObjects) \o SensorRemovals(coins)
       IN /\ ~log'.thrown
          /\ Len(did) = Len(due)
          /\ \A k \in 1..Len(due) :
               did[k].what = due[k].what /\ did[k].handle = due[k].handle
          /\ log'.removal.caught <= Cardinality({k \in 1..Len(did) : ~did[k].ok})
          /\ \A i \in 1..Len(physicsObjects) :
               /\ physicsObjects[i].collider \notin WorldColliders(G')
               /\ physicsObjects[i].body \notin Bodies(world')
          /\ physicsObjects' = physicsObjects /\ coins' = coins]_vars

\* A batch in which a removal failed and raised, and a later one removed a body.
C22_Witness ==
  /\ log.op = "removePhysicsObjects"
  /\ log.removal.caught > 0
  /\ \E i, j \in 1..Len(log.removal.attempted) :
       /\ i < j
       /\ ~log.removal.attempted[i].ok
       /\ log.removal.attempted[j].ok /\ log.removal.attempted[j].what = "body"
\* C23: unless initGame was invoked nothing of the game exists or runs (no frame is
\* scheduled, no timer, no listener, no entity, and the last step was a step of the
\* page load); initGame is invoked only by the fulfilment of RAPIER.init(); and with
\* the engine unavailable the one step taken is the reload, the game state untouched.
C23_StartOnlyAfterInit ==
  /\ [](boot # "started" =>
          /\ ~animating /\ timers = {} /\ ~restartButton /\ keyListeners = {}
          /\ physicsObjects = <<>> /\ coins = <<>> /\ world = {} /\ pending = <<>>
          /\ log.op \in {"load", "DOMContentLoaded", "initRejected", "reload"})
  /\ [][(boot # "started" /\ boot' = "started") =>
          (boot = "initializing" /\ log'.op = "initGame")]_vars
  /\ [][boot = "retrying" =>
          (boot' = "loading" /\ log'.op = "reload" /\ UNCHANGED <<gameVars, car>>)]_vars

\* The game runs a frame after the engine's initialization was fulfilled.
C23_Witness ==
  /\ boot = "started"
  /\ log.op = "animate" /\ log.synced
  /\ animating /\ timers # {}
\* C24: the point spawnCoin places a coin at has |x| <= 40 and |z| <= 40 and is at
\* least 10 from the centre; it is the first sampled point that far out, every sample
\* before it being closer than 10 (lengths times RandomGrid).
C24_CoinPlacement ==
  coinSpot.done =>
    LET x == coinSpot.pos[1]
        z == coinSpot.pos[2]
        far == coinMinDistance * RandomGrid
        sample(i) == <<coinCoordinate(coinSpot.stream[i][1]), coinCoordinate(coinSpot.stream[i][2])>>
    IN /\ Abs(x) <= (coinSpread \div 2) * RandomGrid
       /\ Abs(z) <= (coinSpread \div 2) * RandomGrid
       /\ x * x + z * z >= far * far
       /\ coinSpot.tries \in 1..Len(coinSpot.stream)
       /\ <<x, z>> = sample(coinSpot.tries)
       /\ \A i \in 1..(coinSpot.tries - 1) :
            sample(i)[1] * sample(i)[1] + sample(i)[2] * sample(i)[2] < far * far
       /\ log.op = "spawnCoin" /\ log.nSpawn = 1

\* A coin placed at distance exactly 10 after a closer sample was drawn again.
C24_Witness ==
  /\ coinSpot.done /\ coinSpot.tries > 1
  /\ log.op = "spawnCoin" /\ log.nSpawn = 1
  /\ coinSpot.pos[1] * coinSpot.pos[1] + coinSpot.pos[2] * coinSpot.pos[2]
       = (coinMinDistance * RandomGrid) * (coinMinDistance * RandomGrid)
\* The lines of a sequence of tracks.
LinesOf(tracks) == {tracks[i].line : i \in 1..Len(tracks)}

\* C25: after a call of addTrack the collection holds at most maxTracks tracks, in the
\* order they had; the tracks evicted are those at the front of the collection as it
\* stood with the new tracks appended, as many as exceeded the cap; every track that
\* left the collection, evicted or faded, is out of the scene, and every track kept
\* is in it.
C25_TrackCap ==
  [][log'.op = "addTrack" =>
       LET t == tireTracksSystem
           n == tireTracksSystem'
           all == [i \in 1..(Len(t.tracks) + (n.nextLine - t.nextLine)) |->
                     IF i <= Len(t.tracks) THEN t.tracks[i].line
                     ELSE t.nextLine + (i - Len(t.tracks) - 1)]
           over == IF Len(all) > maxTracks THEN Len(all) - maxTracks ELSE 0
       IN /\ Len(n.tracks) <= maxTracks
          /\ n.evicted = {all[i] : i \in 1..over}
          /\ LinesOf(n.tracks) = {all[i] : i \in 1..Len(all)} \ (n.evicted \cup n.faded)
          /\ \A i, j \in 1..Len(n.tracks) : i < j => n.tracks[i].line < n.tracks[j].line
          /\ (n.evicted \cup n.faded) \cap n.scene = {}
          /\ LinesOf(n.tracks) \subseteq n.scene
          /\ \A i \in 1..Len(n.tracks) : ~almostTransparent(n.tracks[i].age)]_vars

\* A call that evicted the oldest track of a full collection and faded the next one.
C25_Witness ==
  /\ log.op = "addTrack"
  /\ tireTracksSystem.evicted # {} /\ tireTracksSystem.faded # {}
  /\ \A e \in tireTracksSystem.evicted, f \in tireTracksSystem.faded : e < f
  /\ Len(tireTracksSystem.tracks) = maxTracks - 1
C27_RemovedFromBoth ==
  [][log'.op = "removeCollected" =>
       LET coin == Head(pending)
       IN /\ \A i \in 1..Len(physicsObjects') : physicsObjects'[i].body # coin.body
          /\ \A i \in 1..Len(coins') : coins'[i].body # coin.body
          /\ Len(coins') = Len(coins) - 1]_vars
\* C28: in every state the coin collection holds at most coinBaseCount * level + 1
\* coins.
C28_CoinCap ==
  Len(coins) <= coinBaseCount * level + 1

\* A timer tick has brought the collection to coinBaseCount * level + 1 coins.
C28_Witness ==
  /\ Len(coins) = coinBaseCount * level + 1
  /\ log.op = "spawnCoin" /\ log.nSpawn = 1
\* C29: once the game has started at most one coin-spawn timer is active, and one is
\* active exactly when the game is not over.
C29_OneTimerWhileRunning ==
  animating =>
    /\ Cardinality(timers) <= 1
    /\ (timers # {}) <=> ~isOver
\* C30: a frame, and with it the drain of the collision events and every pickup and
\* level-up inside it, leaves the bodies and colliders of the physics world as they
\* were: none is created, none removed; after a level-up inside the drain the
\* obstacle collection is as before.
C30_NoWorldChangeInDrain ==
  [][log'.op = "animate" =>
       /\ world' = world
       /\ log'.nLevelUp > 0 => obstacleBoxes' = obstacleBoxes]_vars

\* A frame whose drain collected a coin and levelled up; the body of the collected
\* coin is still in the world.
C30_Witness ==
  /\ log.op = "animate" /\ Ran(log, "drain")
  /\ log.nCollect > 0 /\ log.nLevelUp = 1
  /\ level = 2
  /\ \E i \in 1..Len(physicsObjects) :
       /\ physicsObjects[i].type = "coin" /\ physicsObjects[i].collected
       /\ physicsObjects[i].body \in Bodies(world)
\* The place of a part of animate among the parts the handler ran (0: it did not run).
PhaseAt(l, p) ==
  IF Ran(l, p) THEN Min({i \in 1..Len(l.phases) : l.phases[i] = p}) ELSE 0

\* C31: a frame of a game that is not over with the car outside the boundary ends with
\* the game over and falling, whatever the drain of that frame holds: the boundary
\* check runs before the drain, one gameOver takes effect, and every later call of
\* gameOver in the frame (a car-obstacle pair) changes nothing.
C31_BoundaryBeforeObstacle ==
  [][(log'.op = "animate" /\ ~isOver /\ log'.carOut) =>
       /\ isOver' /\ isFalling'
       /\ log'.nGameOver = 1 /\ log'.nTrigger >= 1
       /\ PhaseAt(log', "boundary") > 0
       /\ PhaseAt(log', "boundary") < PhaseAt(log', "drain")
       /\ Cardinality(keyListeners') = Cardinality(keyListeners) + 1]_vars

\* A frame that ended the game for the car leaving the ground, and whose drain then
\* called gameOver for an obstacle and ran to its end.
C31_Witness ==
  /\ log.op = "animate" /\ log.carOut /\ log.synced
  /\ log.nGameOver = 1 /\ log.nTrigger > log.nGameOver
  /\ log.nCollect = 0
  /\ isOver /\ isFalling /\ timers = {}
\* C32: a call of updateCarPhysics without the handbrake creates no track segment: it
\* adds no line to the collection or the scene, and leaves each anchor dropped or set
\* anew; a segment is created only by a call made with the handbrake set.
C32_TracksOnlyWithHandbrake ==
  [][/\ (log'.op = "updateCarPhysics" /\ ~car.controls.handbrake) =>
          /\ tireTracksSystem'.nextLine = tireTracksSystem.nextLine
          /\ LinesOf(tireTracksSystem'.tracks) \subseteq LinesOf(tireTracksSystem.tracks)
          /\ tireTracksSystem'.scene \subseteq tireTracksSystem.scene
          /\ \A i \in 1..Len(tireTracksSystem'.tracks) : tireTracksSystem'.tracks[i].age > 0
     /\ (tireTracksSystem'.nextLine # tireTracksSystem.nextLine) =>
          (log'.op = "updateCarPhysics" /\ car.controls.handbrake)]_vars

\* A call without the handbrake that set the anchors anew and aged the segments an
\* earlier handbrake turn had left.
C32_Witness ==
  /\ log.op = "updateCarPhysics" /\ log.physics.ran
  /\ ~car.controls.handbrake
  /\ tireTracksSystem.lastLeftPos /\ tireTracksSystem.lastRightPos
  /\ tireTracksSystem.tracks # <<>>
  /\ \A i \in 1..Len(tireTracksSystem.tracks) : tireTracksSystem.tracks[i].age > 1
\* C33: after a restart the physics world holds no rigid body and no collider that it
\* held before the restart.
C33_RestartClearsWorld ==
  [][IsRestart(log'.op) =>
       /\ Bodies(world) \cap Bodies(world') = {}
       /\ WorldColliders(G) \cap WorldColliders(G') = {}]_vars
\* The number of registered entities of a type.
CountOf(po, type) == Cardinality({i \in 1..Len(po) : po[i].type = type})

\* C34: when initGame or restartGame has returned, the registry holds one car, one
\* ground, boxIncreasePerLevel obstacles and the initialCoins coins of the first
\* spawns, no error was raised, a coin timer runs and the frame loop is scheduled.
C34_SceneComplete ==
  (log.op = "initGame" \/ IsRestart(log.op)) =>
    /\ ~log.thrown
    /\ CountOf(physicsObjects, "car") = 1
    /\ CountOf(physicsObjects, "ground") = 1
    /\ CountOf(physicsObjects, "obstacle") = boxIncreasePerLevel
    /\ Len(obstacleBoxes) = boxIncreasePerLevel
    /\ CountOf(physicsObjects, "coin") = initialCoins
    /\ Len(coins) = initialCoins
    /\ Cardinality(timers) = 1
    /\ animating

\* C35: in every state points is a multiple of coinValue and, while level < maxLevel,
\* points < level * pointsToAdvance; and collectCoin on a registered coin, at any
\* level of 1..maxLevel with the points one or two coins below the threshold of that
\* level, leaves points a multiple of coinValue and, when the level it leaves is below
\* maxLevel, below the threshold of that level.
C35_BelowNextThreshold ==
  /\ points % coinValue = 0
  /\ level < maxLevel => points < level * pointsToAdvance
  /\ \A i \in 1..Len(physicsObjects) :
       physicsObjects[i].collider \in Oldest(G, "coin", FALSE) =>
         \A lvl \in 1..maxLevel, below \in 1..2 :
           LET r == collectCoin(AtLevel(lvl, below), physicsObjects[i].obj)
           IN /\ r.points % coinValue = 0
              /\ r.level < maxLevel => r.points < r.level * pointsToAdvance

\* The frame whose pickup reached the threshold of level 1: the level is 2 and the
\* points are the threshold just passed.
C35_Witness ==
  /\ log.op = "animate" /\ log.nCollect = 1 /\ log.nLevelUp = 1
  /\ level = 2 /\ points = pointsToAdvance
====
